---------------------------- MODULE Spec2Model ----------------------------
(***************************************************************************)
(* A model of broom's operation model and request construction engine.     *)
(*                                                                         *)
(* Go strings are modelled as sequences of one-character strings, so that  *)
(* the string functions the code calls (strings.Split, strings.Contains,   *)
(* strings.NewReplacer, strconv.Parse*, url.Values.Encode, ...) are        *)
(* computed character by character as the library computes them.          *)
(***************************************************************************)
EXTENDS Integers, Sequences, FiniteSets, TLC

VARIABLES
    op,         \* the Operation selected from the catalog (Operations.ByID)
    serverURL,  \* profileCfg.ServerURL
    args,       \* the raw command line: header strings, path values, query, body
    values,     \* the RequestValues returned by ParseRequestValues
    req,        \* the *http.Request returned by Operation.Request (or NoRequest)
    err,        \* the error returned by the last call (or NoError)
    auth,       \* profileCfg.Auth, the AuthConfig of the profile
    ran,        \* the executions of the credential command so far, oldest first
    calls,      \* the number of Authenticate calls made so far
    pc,         \* where the caller is: start, parsed, built, authenticated,
                \* parse_error, request_error, auth_error
    doc,        \* the paths of the OpenAPI description on disk, in document order
    catalog,    \* the Operations returned by the last LoadOperations
    previous,   \* the Operations returned by the load before the last one
    loads,      \* the number of times the description has been loaded
    found       \* what the last Operations.ByID was asked for and returned

engineVars == <<op, serverURL, args, values, req, err, auth, ran, calls, pc>>
catalogVars == <<doc, catalog, previous, loads, found>>
vars == <<op, serverURL, args, values, req, err, auth, ran, calls, pc,
          doc, catalog, previous, loads, found>>

(***************************************************************************)
(* Bounds of the model.                                                    *)
(***************************************************************************)
\* How many positional path values may be supplied beyond the declared ones.
MaxExtra == 1
\* How many key=value pairs a query string or a body string holds at most.
MaxPairs == 2
\* How many header strings (-H) a command line holds at most.
MaxHeaders == 2
\* Authenticate calls made on one request.
MaxCalls == 2
\* Paths of a description, and loads of one description.
MaxPaths == 2
MaxLoads == 2
\* Parameters declared on a path item and on an operation; properties of a
\* body schema.
MaxDeclared == 2
MaxProperties == 2
\* Levels of properties in a body schema.
MaxNesting == 3

(***************************************************************************)
(* Characters and strings.                                                 *)
(***************************************************************************)
\* The printable ASCII characters, in byte order (0x20 .. 0x7E); the grave
\* accent (0x60), which a TLA+ string cannot hold, is spelled out.
Ascii ==
    << " ", "!", "\"", "#", "$", "%", "&", "'", "(", ")", "*", "+", ",", "-", ".", "/",
       "0", "1", "2", "3", "4", "5", "6", "7", "8", "9", ":", ";", "<", "=", ">", "?",
       "@", "A", "B", "C", "D", "E", "F", "G", "H", "I", "J", "K", "L", "M", "N", "O",
       "P", "Q", "R", "S", "T", "U", "V", "W", "X", "Y", "Z", "[", "\\", "]", "^", "_",
       "grave", "a", "b", "c", "d", "e", "f", "g", "h", "i", "j", "k", "l", "m", "n", "o",
       "p", "q", "r", "s", "t", "u", "v", "w", "x", "y", "z", "{", "|", "}", "~" >>

\* The byte value of a character.
Ord == [c \in {Ascii[i] : i \in DOMAIN Ascii} |->
           (CHOOSE i \in DOMAIN Ascii : Ascii[i] = c) + 31]

Digit == {"0", "1", "2", "3", "4", "5", "6", "7", "8", "9"}
Lower == {"a", "b", "c", "d", "e", "f", "g", "h", "i", "j", "k", "l", "m",
          "n", "o", "p", "q", "r", "s", "t", "u", "v", "w", "x", "y", "z"}
Upper == {"A", "B", "C", "D", "E", "F", "G", "H", "I", "J", "K", "L", "M",
          "N", "O", "P", "Q", "R", "S", "T", "U", "V", "W", "X", "Y", "Z"}
HexDigits == <<"0", "1", "2", "3", "4", "5", "6", "7", "8", "9", "A", "B", "C", "D", "E", "F">>

\* unicode.ToLower on an ASCII letter.
ToLowerChar(c) == IF c \in Upper THEN Ascii[Ord[c] + 32 - 31] ELSE c
ToLower(s) == [i \in DOMAIN s |-> ToLowerChar(s[i])]

\* s[from:] of Go (from is 0-based).
SliceFrom(s, from) == SubSeq(s, from + 1, Len(s))

\* Whether sub occurs in s at the 1-based position i.
MatchAt(s, sub, i) ==
    /\ i >= 1
    /\ i + Len(sub) - 1 <= Len(s)
    /\ SubSeq(s, i, i + Len(sub) - 1) = sub

\* strings.HasPrefix
HasPrefix(s, prefix) == MatchAt(s, prefix, 1)

\* strings.Contains
Contains(s, sub) == \E i \in 1..(Len(s) + 1) : MatchAt(s, sub, i)

\* The 1-based position of the first occurrence of character c in s, 0 if none.
IndexChar(s, c) ==
    IF \E i \in DOMAIN s : s[i] = c
    THEN CHOOSE i \in DOMAIN s : s[i] = c /\ \A j \in 1..(i - 1) : s[j] # c
    ELSE 0

\* strings.Split(s, sep) for a one-character separator: the pieces between the
\* separators, in order; a string without the separator is its own only piece.
RECURSIVE Split(_, _)
Split(s, sep) ==
    LET i == IndexChar(s, sep)
    IN  IF i = 0 THEN <<s>>
        ELSE <<SubSeq(s, 1, i - 1)>> \o Split(SubSeq(s, i + 1, Len(s)), sep)

\* strings.Join
RECURSIVE Join(_, _)
Join(strs, sep) ==
    IF Len(strs) = 0 THEN <<>>
    ELSE IF Len(strs) = 1 THEN strs[1]
    ELSE strs[1] \o sep \o Join(Tail(strs), sep)

\* Byte-wise lexicographic order of Go's string comparison (a < b).
RECURSIVE StrLess(_, _)
StrLess(a, b) ==
    IF Len(b) = 0 THEN FALSE
    ELSE IF Len(a) = 0 THEN TRUE
    ELSE IF a[1] = b[1] THEN StrLess(Tail(a), Tail(b))
    ELSE Ord[a[1]] < Ord[b[1]]

\* sort.Strings applied to the keys of a map: the keys in ascending order.
RECURSIVE SortStrings(_)
SortStrings(keys) ==
    IF keys = {} THEN <<>>
    ELSE LET least == CHOOSE k \in keys : \A o \in keys \ {k} : StrLess(k, o)
         IN  <<least>> \o SortStrings(keys \ {least})

\* All sequences over set S of length 0..n.
RECURSIVE SeqsUpTo(_, _)
SeqsUpTo(S, n) ==
    IF n = 0 THEN {<<>>}
    ELSE LET shorter == SeqsUpTo(S, n - 1)
         IN  shorter \cup {Append(q, x) : q \in {r \in shorter : Len(r) = n - 1}, x \in S}

\* The elements of a sequence.
Range(q) == {q[i] : i \in DOMAIN q}

\* The orders in which the elements of a finite set can be visited.
RECURSIVE Orders(_)
Orders(S) ==
    IF S = {} THEN {<<>>}
    ELSE UNION {{<<x>> \o rest : rest \in Orders(S \ {x})} : x \in S}

(***************************************************************************)
(* strconv.                                                                *)
(***************************************************************************)
\* strconv.ParseBool: the spellings it accepts.
ParseBoolTrue  == {<<"1">>, <<"t">>, <<"T">>, <<"T","R","U","E">>, <<"t","r","u","e">>, <<"T","r","u","e">>}
ParseBoolFalse == {<<"0">>, <<"f">>, <<"F">>, <<"F","A","L","S","E">>, <<"f","a","l","s","e">>, <<"F","a","l","s","e">>}

ParseBool(str) ==
    IF str \in ParseBoolTrue THEN [ok |-> TRUE, v |-> [t |-> "bool", b |-> TRUE]]
    ELSE IF str \in ParseBoolFalse THEN [ok |-> TRUE, v |-> [t |-> "bool", b |-> FALSE]]
    ELSE [ok |-> FALSE, v |-> [t |-> "bool", b |-> FALSE]]

\* A decimal digit string without its leading zeros ("0" for zero).
RECURSIVE StripZeros(_)
StripZeros(ds) ==
    IF Len(ds) > 1 /\ ds[1] = "0" THEN StripZeros(Tail(ds)) ELSE ds

\* a <= b for two decimal digit strings without leading zeros.
DecLeq(a, b) ==
    \/ Len(a) < Len(b)
    \/ Len(a) = Len(b) /\ (a = b \/ StrLess(a, b))

\* The magnitudes of the largest and the smallest int64 (bitSize 64).
MaxInt64 == <<"9","2","2","3","3","7","2","0","3","6","8","5","4","7","7","5","8","0","7">>
MinInt64Magnitude == <<"9","2","2","3","3","7","2","0","3","6","8","5","4","7","7","5","8","0","8">>

\* ParseInt without the range check of bitSize 64: every digit string is taken.
ParseIntUnchecked(str) ==
    LET signed == Len(str) > 0 /\ str[1] \in {"+", "-"}
        neg    == Len(str) > 0 /\ str[1] = "-"
        digits == IF signed THEN Tail(str) ELSE str
        mag    == StripZeros(digits)
    IN  IF Len(digits) = 0 \/ \E i \in DOMAIN digits : digits[i] \notin Digit
        THEN [ok |-> FALSE, v |-> [t |-> "int64", d |-> <<"0">>]]
        ELSE [ok |-> TRUE,
              v |-> [t |-> "int64", d |-> IF neg /\ mag # <<"0">> THEN <<"-">> \o mag ELSE mag]]

\* strconv.ParseInt(str, 10, 64): an optional sign, then one or more decimal
\* digits (no underscores, no base prefix with base 10); a value outside int64
\* is a range error.  An int64 is kept as its canonical decimal spelling, the
\* spelling encoding/json writes.
ParseInt(str) ==
    LET signed == Len(str) > 0 /\ str[1] \in {"+", "-"}
        neg    == Len(str) > 0 /\ str[1] = "-"
        digits == IF signed THEN Tail(str) ELSE str
        fail   == [ok |-> FALSE, v |-> [t |-> "int64", d |-> <<"0">>]]
    IN  IF Len(digits) = 0 \/ \E i \in DOMAIN digits : digits[i] \notin Digit THEN fail
        ELSE LET mag   == StripZeros(digits)
                 limit == IF neg THEN MinInt64Magnitude ELSE MaxInt64
             IN  IF ~DecLeq(mag, limit) THEN fail
                 ELSE [ok |-> TRUE,
                       v |-> [t |-> "int64",
                              d |-> IF neg /\ mag # <<"0">> THEN <<"-">> \o mag ELSE mag]]

\* Whether s is digits, an optional "." and digits, with at least one digit.
IsDecimalMantissa(s) ==
    LET dots == {i \in DOMAIN s : s[i] = "."}
    IN  /\ \A i \in DOMAIN s : s[i] \in Digit \cup {"."}
        /\ Cardinality(dots) <= 1
        /\ \E i \in DOMAIN s : s[i] \in Digit

\* Whether s is an exponent part: e or E, an optional sign, one or more digits.
IsExponent(s) ==
    /\ Len(s) >= 2
    /\ s[1] \in {"e", "E"}
    /\ LET rest == IF s[2] \in {"+", "-"} THEN SliceFrom(s, 2) ELSE Tail(s)
       IN  Len(rest) > 0 /\ \A i \in DOMAIN rest : rest[i] \in Digit

\* strconv.ParseFloat(str, 64) on the decimal syntax: "NaN", the optionally
\* signed "Inf" and "Infinity" (in any letter case), and optionally signed
\* decimal literals with an optional exponent.  A finite float64 is kept as the
\* literal it was parsed from; its binary rounding, the range error of a huge
\* exponent, hexadecimal literals and digit separators are not modelled.
ParseFloat(str) ==
    LET signed   == Len(str) > 0 /\ str[1] \in {"+", "-"}
        unsigned == IF signed THEN Tail(str) ELSE str
        low      == ToLower(unsigned)
        epos     == IF IndexChar(low, "e") = 0 THEN Len(low) + 1 ELSE IndexChar(low, "e")
        mant     == SubSeq(low, 1, epos - 1)
        expo     == SubSeq(low, epos, Len(low))
    IN  IF ~signed /\ low = <<"n","a","n">>
        THEN [ok |-> TRUE, v |-> [t |-> "float64", class |-> "NaN", lit |-> str]]
        ELSE IF low \in {<<"i","n","f">>, <<"i","n","f","i","n","i","t","y">>}
        THEN [ok |-> TRUE, v |-> [t |-> "float64", class |-> "Inf", lit |-> str]]
        ELSE IF IsDecimalMantissa(mant) /\ (Len(expo) = 0 \/ IsExponent(expo))
        THEN [ok |-> TRUE, v |-> [t |-> "float64", class |-> "finite", lit |-> str]]
        ELSE [ok |-> FALSE, v |-> [t |-> "float64", class |-> "finite", lit |-> str]]

\* strconv.Itoa of a natural number (the %v of an int).
RECURSIVE Itoa(_)
Itoa(n) ==
    IF n < 10 THEN <<HexDigits[n + 1]>>
    ELSE Itoa(n \div 10) \o <<HexDigits[(n % 10) + 1]>>

\* strconv.Quote of a printable ASCII string (the %q of a string).
Quote(s) ==
    LET RECURSIVE Esc(_)
        Esc(r) == IF Len(r) = 0 THEN <<>>
                  ELSE (IF r[1] \in {"\"", "\\"} THEN <<"\\", r[1]>> ELSE <<r[1]>>)
                       \o Esc(Tail(r))
    IN  <<"\"">> \o Esc(s) \o <<"\"">>

(***************************************************************************)
(* Errors: a Go error is its message, nil is NoError.                      *)
(***************************************************************************)
NoError == [isErr |-> FALSE, msg |-> <<>>]
Error(msg) == [isErr |-> TRUE, msg |-> msg]

(***************************************************************************)
(* net/url.                                                                *)
(***************************************************************************)
\* url.QueryEscape: letters, digits and - _ . ~ stay, a space becomes "+",
\* every other byte becomes %XX in upper-case hexadecimal.
QueryEscapeChar(c) ==
    IF c \in Digit \cup Lower \cup Upper \cup {"-", "_", ".", "~"} THEN <<c>>
    ELSE IF c = " " THEN <<"+">>
    ELSE <<"%", HexDigits[(Ord[c] \div 16) + 1], HexDigits[(Ord[c] % 16) + 1]>>

RECURSIVE QueryEscape(_)
QueryEscape(s) ==
    IF Len(s) = 0 THEN <<>> ELSE QueryEscapeChar(s[1]) \o QueryEscape(Tail(s))

\* The value of a hexadecimal digit, -1 for any other character.
Unhex(c) ==
    IF c \in Digit THEN Ord[c] - Ord["0"]
    ELSE IF c \in {"a", "b", "c", "d", "e", "f"} THEN Ord[c] - Ord["a"] + 10
    ELSE IF c \in {"A", "B", "C", "D", "E", "F"} THEN Ord[c] - Ord["A"] + 10
    ELSE -1

\* Whether every "%" of s starts a %XX escape (url.unescape's first pass).
ValidEscapes(s) ==
    \A i \in DOMAIN s :
        s[i] = "%" => /\ i + 2 <= Len(s)
                      /\ Unhex(s[i + 1]) >= 0
                      /\ Unhex(s[i + 2]) >= 0

\* url.QueryUnescape of a string with valid escapes: "+" becomes a space and
\* %XX the byte XX (a printable ASCII byte in every input of this model).
RECURSIVE QueryUnescape(_)
QueryUnescape(s) ==
    IF Len(s) = 0 THEN <<>>
    ELSE IF s[1] = "+" THEN <<" ">> \o QueryUnescape(Tail(s))
    ELSE IF s[1] = "%"
         THEN <<Ascii[Unhex(s[2]) * 16 + Unhex(s[3]) - 31]>> \o QueryUnescape(SliceFrom(s, 3))
    ELSE <<s[1]>> \o QueryUnescape(Tail(s))

\* url.Values is map[string][]string: a function from its keys to value lists.
EmptyValues == [k \in {} |-> <<>>]

\* Values with value appended to the list of key (m[key] = append(m[key], value)).
ValuesAdd(m, key, value) ==
    [k \in DOMAIN m \cup {key} |->
        IF k = key THEN (IF key \in DOMAIN m THEN m[key] ELSE <<>>) \o <<value>>
        ELSE m[k]]

\* strings.Cut(s, "="): the text before and after the first "=".
CutEquals(s) ==
    LET i == IndexChar(s, "=")
    IN  IF i = 0 THEN <<s, <<>>>> ELSE <<SubSeq(s, 1, i - 1), SubSeq(s, i + 1, Len(s))>>

\* The EscapeError of url.unescape: the first bad escape, cut to three bytes.
EscapeError(s) ==
    LET bad == CHOOSE i \in DOMAIN s :
                   /\ s[i] = "%"
                   /\ ~(i + 2 <= Len(s) /\ Unhex(s[i + 1]) >= 0 /\ Unhex(s[i + 2]) >= 0)
                   /\ \A j \in 1..(i - 1) :
                        s[j] = "%" => (j + 2 <= Len(s) /\ Unhex(s[j + 1]) >= 0
                                                      /\ Unhex(s[j + 2]) >= 0)
        last == IF bad + 2 <= Len(s) THEN bad + 2 ELSE Len(s)
    IN  Error(<<"i","n","v","a","l","i","d"," ","U","R","L"," ","e","s","c","a","p","e"," ">> \o Quote(SubSeq(s, bad, last)))

\* url.ParseQuery: the "&"-separated settings of the query are taken in order;
\* an empty setting is skipped, a setting with ";" or a bad escape is an error
\* (and is skipped), every other one appends its value to the list of its key.
\* The error returned is the first escape error, or the semicolon error if one
\* came after it.
RECURSIVE ParseQuerySettings(_, _, _)
ParseQuerySettings(settings, m, e) ==
    IF Len(settings) = 0 THEN [values |-> m, err |-> e]
    ELSE LET setting == settings[1]
             kv      == CutEquals(setting)
         IN  IF Contains(setting, <<";">>)
             THEN ParseQuerySettings(Tail(settings), m,
                                     Error(<<"i","n","v","a","l","i","d"," ","s","e","m","i","c","o","l","o","n"," ","s","e","p","a","r","a","t","o","r"," ","i","n"," ","q","u","e","r","y">>))
             ELSE IF Len(setting) = 0
             THEN ParseQuerySettings(Tail(settings), m, e)
             ELSE IF ~ValidEscapes(kv[1])
             THEN ParseQuerySettings(Tail(settings), m,
                                     IF e.isErr THEN e ELSE EscapeError(kv[1]))
             ELSE IF ~ValidEscapes(kv[2])
             THEN ParseQuerySettings(Tail(settings), m,
                                     IF e.isErr THEN e ELSE EscapeError(kv[2]))
             ELSE ParseQuerySettings(Tail(settings),
                                     ValuesAdd(m, QueryUnescape(kv[1]), QueryUnescape(kv[2])),
                                     e)

ParseQuery(query) ==
    IF Len(query) = 0 THEN [values |-> EmptyValues, err |-> NoError]
    ELSE ParseQuerySettings(Split(query, "&"), EmptyValues, NoError)

\* url.Values.Get: the first value of the key, "" when the key has none.
Get(m, key) ==
    IF key \in DOMAIN m /\ Len(m[key]) > 0 THEN m[key][1] ELSE <<>>

\* url.Values.Encode: key=value for every value of every key, the keys in
\* ascending order, both sides query-escaped, joined by "&".
Encode(m) ==
    LET keys == SortStrings(DOMAIN m)
        RECURSIVE OfKey(_, _)
        OfKey(k, vs) ==
            IF Len(vs) = 0 THEN <<>>
            ELSE <<QueryEscape(k) \o <<"=">> \o QueryEscape(vs[1])>> \o OfKey(k, Tail(vs))
        RECURSIVE All(_)
        All(ks) == IF Len(ks) = 0 THEN <<>> ELSE OfKey(ks[1], m[ks[1]]) \o All(Tail(ks))
    IN  Join(All(keys), <<"&">>)

(***************************************************************************)
(* net/http and net/textproto: headers.                                    *)
(***************************************************************************)
\* strings.TrimSpace and bytes.TrimSpace over the white space of ASCII.
WhiteSpace == {" ", "\t", "\n", "\r"}
RECURSIVE TrimLeft(_)
TrimLeft(s) == IF Len(s) > 0 /\ s[1] \in WhiteSpace THEN TrimLeft(Tail(s)) ELSE s
RECURSIVE TrimRight(_)
TrimRight(s) ==
    IF Len(s) > 0 /\ s[Len(s)] \in WhiteSpace
    THEN TrimRight(SubSeq(s, 1, Len(s) - 1)) ELSE s
TrimSpace(s) == TrimLeft(TrimRight(s))

\* The characters of an HTTP token (textproto's validHeaderFieldByte).
TokenChar == Digit \cup Lower \cup Upper \cup
             {"!", "#", "$", "%", "&", "'", "*", "+", "-", ".", "^", "_", "grave", "|", "~"}

\* textproto.CanonicalMIMEHeaderKey: a key that is a token has its first letter
\* and every letter after a "-" in upper case and the rest in lower case; any
\* other key is returned unchanged.
CanonicalMIMEHeaderKey(s) ==
    IF \E i \in DOMAIN s : s[i] \notin TokenChar THEN s
    ELSE [i \in DOMAIN s |->
            IF i = 1 \/ s[i - 1] = "-"
            THEN (IF s[i] \in Lower THEN Ascii[Ord[s[i]] - 32 - 31] ELSE s[i])
            ELSE ToLowerChar(s[i])]

\* http.Header is map[string][]string; Header.Set replaces the values of the
\* canonical key by the one value.
EmptyHeader == [k \in {} |-> <<>>]
HeaderSet(h, key, value) ==
    [k \in DOMAIN h \cup {CanonicalMIMEHeaderKey(key)} |->
        IF k = CanonicalMIMEHeaderKey(key) THEN <<value>> ELSE h[k]]

(***************************************************************************)
(* Parameter and ParameterList.                                            *)
(***************************************************************************)
\* A Parameter: the fields the engine reads.
Param(in, name, type, enum, required) ==
    [In |-> in, Name |-> name, Type |-> type, Enum |-> enum, Required |-> required]

\* contains(a, x): whether slice a contains x.
contains(a, x) == \E i \in DOMAIN a : a[i] = x

\* Parameter.Validate without the exemption of the empty value from the enum.
ParameterValidateEnumOnEmpty(p, value) ==
    IF value = <<>> /\ p.Required
    THEN Error(<<"m","i","s","s","i","n","g"," ","r","e","q","u","i","r","e","d"," ">> \o p.In \o <<" ","p","a","r","a","m","e","t","e","r"," ">> \o Quote(p.Name))
    ELSE IF Len(p.Enum) > 0 /\ ~contains(p.Enum, value)
    THEN Error(<<"i","n","v","a","l","i","d"," ","v","a","l","u","e"," ","f","o","r"," ">> \o p.In \o <<" ","p","a","r","a","m","e","t","e","r"," ">> \o Quote(p.Name)
               \o <<" ","(","a","l","l","o","w","e","d"," ","v","a","l","u","e","s",":"," ">> \o Join(p.Enum, <<","," ">>) \o <<")">>)
    ELSE NoError

\* Parameter.Validate
ParameterValidate(p, value) ==
    IF value = <<>> /\ p.Required
    THEN Error(<<"m","i","s","s","i","n","g"," ","r","e","q","u","i","r","e","d"," ">> \o p.In \o <<" ","p","a","r","a","m","e","t","e","r"," ">> \o Quote(p.Name))
    ELSE IF value # <<>> /\ Len(p.Enum) > 0 /\ ~contains(p.Enum, value)
    THEN Error(<<"i","n","v","a","l","i","d"," ","v","a","l","u","e"," ","f","o","r"," ">> \o p.In \o <<" ","p","a","r","a","m","e","t","e","r"," ">> \o Quote(p.Name)
               \o <<" ","(","a","l","l","o","w","e","d"," ","v","a","l","u","e","s",":"," ">> \o Join(p.Enum, <<","," ">>) \o <<")">>)
    ELSE NoError

\* ParameterList.Validate returning from inside its loop: only the first
\* parameter of the list is validated.
ParameterListValidateFirstOnly(pl, vals) ==
    IF Len(pl) = 0 THEN NoError
    ELSE ParameterValidate(pl[1], Get(vals, pl[1].Name))

\* ParameterList.Validate: the error of the first parameter that has one.
RECURSIVE ParameterListValidate(_, _)
ParameterListValidate(pl, vals) ==
    IF Len(pl) = 0 THEN NoError
    ELSE LET e == ParameterValidate(pl[1], Get(vals, pl[1].Name))
         IN  IF e.isErr THEN e ELSE ParameterListValidate(Tail(pl), vals)

\* ParameterList.ByName: the first parameter with the name.
HasName(pl, name) == \E i \in DOMAIN pl : pl[i].Name = name
ByName(pl, name) ==
    pl[CHOOSE i \in DOMAIN pl : pl[i].Name = name /\ \A j \in 1..(i - 1) : pl[j].Name # name]

\* parseStr: the strconv parse function of the type, the string itself for
\* "string" and for every other type.
parseStr(str, newType) ==
    IF newType = <<"b","o","o","l","e","a","n">> THEN ParseBool(str)
    ELSE IF newType = <<"i","n","t","e","g","e","r">> THEN ParseInt(str)
    ELSE IF newType = <<"n","u","m","b","e","r">> THEN ParseFloat(str)
    ELSE [ok |-> TRUE, v |-> [t |-> "string", s |-> str]]

\* The casts of the pieces with a failing piece skipped instead of reported.
RECURSIVE CastPiecesSkipping(_, _, _)
CastPiecesSkipping(strs, elemType, vs) ==
    IF Len(strs) = 0 THEN [err |-> NoError, v |-> [t |-> "list", items |-> vs]]
    ELSE LET r == parseStr(strs[1], elemType)
         IN  CastPiecesSkipping(Tail(strs), elemType,
                                IF r.ok THEN Append(vs, r.v) ELSE vs)

\* The casts of the pieces of an array value, left to right, up to and
\* including the first piece that fails.
RECURSIVE CastPieces(_, _, _)
CastPieces(strs, elemType, vs) ==
    IF Len(strs) = 0 THEN [err |-> NoError, v |-> [t |-> "list", items |-> vs]]
    ELSE LET r == parseStr(strs[1], elemType)
         IN  IF ~r.ok
             THEN [err |-> Error(Quote(strs[1]) \o <<" ","i","s"," ","n","o","t"," ","a"," ","v","a","l","i","d"," ">> \o elemType),
                   v |-> [t |-> "nil"]]
             ELSE CastPieces(Tail(strs), elemType, Append(vs, r.v))

\* Parameter.CastString
CastString(p, str) ==
    IF HasPrefix(p.Type, <<"[","]">>)
    THEN CastPieces(Split(str, ","), SliceFrom(p.Type, 2), <<>>)
    ELSE LET r == parseStr(str, p.Type)
         IN  IF ~r.ok
             THEN [err |-> Error(Quote(str) \o <<" ","i","s"," ","n","o","t"," ","a"," ","v","a","l","i","d"," ">> \o p.Type),
                   v |-> [t |-> "nil"]]
             ELSE [err |-> NoError, v |-> r.v]

(***************************************************************************)
(* encoding/json.                                                          *)
(***************************************************************************)
\* The JSON text of a string: quoted, with " and \ escaped by a backslash and
\* the HTML characters <, > and & written as \u003c, \u003e and \u0026.
JSONString(s) ==
    LET RECURSIVE Esc(_)
        Esc(r) ==
            IF Len(r) = 0 THEN <<>>
            ELSE (IF r[1] \in {"\"", "\\"} THEN <<"\\", r[1]>>
                  ELSE IF r[1] = "<" THEN <<"\\","u","0","0","3","c">>
                  ELSE IF r[1] = ">" THEN <<"\\","u","0","0","3","e">>
                  ELSE IF r[1] = "&" THEN <<"\\","u","0","0","2","6">>
                  ELSE <<r[1]>>) \o Esc(Tail(r))
    IN  <<"\"">> \o Esc(s) \o <<"\"">>

\* The JSON text of a finite float64 parsed from a plain decimal literal: the
\* literal without "+", leading zeros, trailing fraction zeros and a bare ".".
JSONFloat(lit) ==
    LET neg      == Len(lit) > 0 /\ lit[1] = "-"
        unsigned == IF Len(lit) > 0 /\ lit[1] \in {"+", "-"} THEN Tail(lit) ELSE lit
        dot      == IndexChar(unsigned, ".")
        whole    == IF dot = 0 THEN unsigned ELSE SubSeq(unsigned, 1, dot - 1)
        frac     == IF dot = 0 THEN <<>> ELSE SubSeq(unsigned, dot + 1, Len(unsigned))
        RECURSIVE DropTrailingZeros(_)
        DropTrailingZeros(f) ==
            IF Len(f) > 0 /\ f[Len(f)] = "0"
            THEN DropTrailingZeros(SubSeq(f, 1, Len(f) - 1)) ELSE f
        w == StripZeros(IF Len(whole) = 0 THEN <<"0">> ELSE whole)
        f == DropTrailingZeros(frac)
    IN  (IF neg THEN <<"-">> ELSE <<>>) \o w \o (IF Len(f) = 0 THEN <<>> ELSE <<".">> \o f)

\* Whether json.Marshal can encode the value: NaN and the infinities cannot be.
RECURSIVE Encodable(_)
Encodable(v) ==
    IF v.t = "float64" THEN v.class = "finite"
    ELSE IF v.t = "list" THEN \A i \in DOMAIN v.items : Encodable(v.items[i])
    ELSE TRUE

\* The JSON text of a cast value.
RECURSIVE JSONValue(_)
JSONValue(v) ==
    IF v.t = "string" THEN JSONString(v.s)
    ELSE IF v.t = "bool" THEN (IF v.b THEN <<"t","r","u","e">> ELSE <<"f","a","l","s","e">>)
    ELSE IF v.t = "int64" THEN v.d
    ELSE IF v.t = "float64" THEN JSONFloat(v.lit)
    ELSE <<"[">> \o Join([i \in DOMAIN v.items |-> JSONValue(v.items[i])], <<",">>) \o <<"]">>

\* The first value json.Marshal cannot encode, in the order it writes them.
RECURSIVE Unsupported(_)
Unsupported(vs) ==
    IF Len(vs) = 0 THEN <<>>
    ELSE IF ~Encodable(vs[1])
    THEN (IF vs[1].t = "float64" THEN vs[1]
          ELSE Unsupported(<<vs[1].items[CHOOSE i \in DOMAIN vs[1].items :
                               /\ ~Encodable(vs[1].items[i])
                               /\ \A j \in 1..(i - 1) : Encodable(vs[1].items[j])]>>))
    ELSE Unsupported(Tail(vs))

\* json.Marshal of a map[string]interface{}: one member per key, the keys in
\* ascending order; an error when a value is NaN or an infinity.
Marshal(jsonValues) ==
    LET keys == SortStrings(DOMAIN jsonValues)
        bad  == Unsupported([i \in DOMAIN keys |-> jsonValues[keys[i]]])
        text(v) == IF v.class = "NaN" THEN <<"N","a","N">>
                   ELSE IF v.lit[1] = "-" THEN <<"-","I","n","f">> ELSE <<"+","I","n","f">>
    IN  IF \E k \in DOMAIN jsonValues : ~Encodable(jsonValues[k])
        THEN [body |-> <<>>, err |-> Error(<<"j","s","o","n",":"," ","u","n","s","u","p","p","o","r","t","e","d"," ","v","a","l","u","e",":"," ">> \o text(bad))]
        ELSE [body |-> <<"{">>
                       \o Join([i \in DOMAIN keys |->
                                  JSONString(keys[i]) \o <<":">> \o JSONValue(jsonValues[keys[i]])],
                               <<",">>)
                       \o <<"}">>,
              err |-> NoError]

(***************************************************************************)
(* Operation.                                                              *)
(***************************************************************************)
\* IsJSON: whether the media type matches a JSON format.
IsJSON(mediaType) == Contains(mediaType, <<"j","s","o","n">>)

\* Operation.HasBody
HasBody(o) == o.BodyFormat # <<>>

\* Operation.Validate with the arity comparison off by one (>= for >).
OperationValidateOffByOne(o, vals) ==
    LET nParams == Len(o.Parameters.Path)
        nValues == Len(vals.Path)
    IN  IF nParams >= nValues
        THEN Error(<<"t","o","o"," ","f","e","w"," ","p","a","t","h"," ","p","a","r","a","m","e","t","e","r","s",":"," ","g","o","t"," ">> \o Itoa(nValues)
                   \o <<","," ","w","a","n","t"," ">> \o Itoa(nParams))
        ELSE LET qe == ParameterListValidate(o.Parameters.Query, vals.Query)
             IN  IF qe.isErr THEN qe
                 ELSE ParameterListValidate(o.Parameters.Body, vals.Body)

\* Operation.Validate checking the body parameters before the query ones.
OperationValidateBodyFirst(o, vals) ==
    LET nParams == Len(o.Parameters.Path)
        nValues == Len(vals.Path)
    IN  IF nParams > nValues
        THEN Error(<<"t","o","o"," ","f","e","w"," ","p","a","t","h"," ","p","a","r","a","m","e","t","e","r","s",":"," ","g","o","t"," ">> \o Itoa(nValues)
                   \o <<","," ","w","a","n","t"," ">> \o Itoa(nParams))
        ELSE LET be == ParameterListValidate(o.Parameters.Body, vals.Body)
             IN  IF be.isErr THEN be
                 ELSE ParameterListValidate(o.Parameters.Query, vals.Query)

\* Operation.Validate: path arity, then the query, then the body parameters.
OperationValidate(o, vals) ==
    LET nParams == Len(o.Parameters.Path)
        nValues == Len(vals.Path)
    IN  IF nParams > nValues
        THEN Error(<<"t","o","o"," ","f","e","w"," ","p","a","t","h"," ","p","a","r","a","m","e","t","e","r","s",":"," ","g","o","t"," ">> \o Itoa(nValues)
                   \o <<","," ","w","a","n","t"," ">> \o Itoa(nParams))
        ELSE LET qe == ParameterListValidate(o.Parameters.Query, vals.Query)
             IN  IF qe.isErr THEN qe
                 ELSE ParameterListValidate(o.Parameters.Body, vals.Body)

\* strings.ReplaceAll(s, old, new)
RECURSIVE ReplaceAll(_, _, _)
ReplaceAll(s, old, new) ==
    IF Len(s) = 0 THEN <<>>
    ELSE IF MatchAt(s, old, 1) THEN new \o ReplaceAll(SliceFrom(s, Len(old)), old, new)
    ELSE <<s[1]>> \o ReplaceAll(Tail(s), old, new)

\* The replacement done pair after pair with strings.ReplaceAll, so that the
\* text a pair has inserted is scanned again by the pairs after it.
RECURSIVE ReplacePairAfterPair(_, _)
ReplacePairAfterPair(oldnew, s) ==
    IF Len(oldnew) = 0 THEN s
    ELSE ReplacePairAfterPair(Tail(oldnew), ReplaceAll(s, oldnew[1][1], oldnew[1][2]))

\* strings.NewReplacer(oldnew...).Replace(s): the text is scanned once from the
\* left; where old strings match, the pair that comes first in the argument
\* list is applied and the scan resumes after the match (a replacement is never
\* scanned again); elsewhere the character is copied.
RECURSIVE Replace(_, _)
Replace(oldnew, s) ==
    IF Len(s) = 0 THEN <<>>
    ELSE LET hits == {k \in DOMAIN oldnew : MatchAt(s, oldnew[k][1], 1)}
         IN  IF hits = {} THEN <<s[1]>> \o Replace(oldnew, Tail(s))
             ELSE LET k == CHOOSE h \in hits : \A g \in hits : h <= g
                  IN  oldnew[k][2] \o Replace(oldnew, SliceFrom(s, Len(oldnew[k][1])))

\* The old/new pairs requestURL builds: one per path value that has a declared
\* path parameter at its position.
PathReplacements(o, vals) ==
    LET n == IF Len(vals.Path) < Len(o.Parameters.Path)
             THEN Len(vals.Path) ELSE Len(o.Parameters.Path)
    IN  [i \in 1..n |-> << <<"{">> \o o.Parameters.Path[i].Name \o <<"}">>, vals.Path[i] >>]

\* Operation.requestURL appending "?" and the query without asking whether
\* there are query values.
requestURLAlwaysQuery(o, server, vals) ==
    server \o Replace(PathReplacements(o, vals), o.Path) \o <<"?">> \o Encode(vals.Query)

\* Operation.requestURL
requestURL(o, server, vals) ==
    LET path == Replace(PathReplacements(o, vals), o.Path)
    IN  server \o (IF Cardinality(DOMAIN vals.Query) > 0
                   THEN path \o <<"?">> \o Encode(vals.Query)
                   ELSE path)

\* The loop of requestBody over the body values, in the order the map is
\* iterated: every value is cast by the body parameter of its name, or passed
\* through as a string when there is none; the first failing cast ends it.
RECURSIVE CastBodyValues(_, _, _, _)
CastBodyValues(o, bodyValues, order, jsonValues) ==
    IF Len(order) = 0 THEN [err |-> NoError, jsonValues |-> jsonValues]
    ELSE LET name  == order[1]
             value == Get(bodyValues, name)
             c     == IF HasName(o.Parameters.Body, name)
                      THEN CastString(ByName(o.Parameters.Body, name), value)
                      ELSE [err |-> NoError, v |-> [t |-> "string", s |-> value]]
         IN  IF c.err.isErr
             THEN [err |-> Error(<<"c","o","u","l","d"," ","n","o","t"," ","p","r","o","c","e","s","s"," ">> \o name \o <<":"," ">> \o c.err.msg),
                   jsonValues |-> jsonValues]
             ELSE CastBodyValues(o, bodyValues, Tail(order),
                                 [k \in DOMAIN jsonValues \cup {name} |->
                                     IF k = name THEN c.v ELSE jsonValues[k]])

\* Operation.requestBody casting the values whatever the format is, so that a
\* form body is refused for a value its declared type does not take.
requestBodyCastingForms(o, bodyValues, order) ==
    IF ~HasBody(o) THEN [body |-> <<>>, err |-> NoError]
    ELSE LET c == CastBodyValues(o, bodyValues, order, [k \in {} |-> [t |-> "nil"]])
         IN  IF c.err.isErr THEN [body |-> <<>>, err |-> c.err]
             ELSE IF IsJSON(o.BodyFormat) THEN Marshal(c.jsonValues)
             ELSE IF o.BodyFormat = <<"a","p","p","l","i","c","a","t","i","o","n","/","x","-","w","w","w","-","f","o","r","m","-","u","r","l","e","n","c","o","d","e","d">>
             THEN [body |-> Encode(bodyValues), err |-> NoError]
             ELSE [body |-> <<>>, err |-> Error(<<"u","n","s","u","p","p","o","r","t","e","d"," ","b","o","d","y"," ","f","o","r","m","a","t"," ">> \o o.BodyFormat)]

\* Operation.requestBody without its last branch: a format that is neither
\* JSON nor the form format gets an empty body and no error.
requestBodyIgnoringFormat(o, bodyValues, order) ==
    IF ~HasBody(o) THEN [body |-> <<>>, err |-> NoError]
    ELSE IF IsJSON(o.BodyFormat)
    THEN LET c == CastBodyValues(o, bodyValues, order, [k \in {} |-> [t |-> "nil"]])
         IN  IF c.err.isErr THEN [body |-> <<>>, err |-> c.err]
             ELSE Marshal(c.jsonValues)
    ELSE IF o.BodyFormat = <<"a","p","p","l","i","c","a","t","i","o","n","/","x","-","w","w","w","-","f","o","r","m","-","u","r","l","e","n","c","o","d","e","d">>
    THEN [body |-> Encode(bodyValues), err |-> NoError]
    ELSE [body |-> <<>>, err |-> NoError]

\* Operation.requestBody; order is the order in which Go iterates bodyValues.
requestBody(o, bodyValues, order) ==
    IF ~HasBody(o) THEN [body |-> <<>>, err |-> NoError]
    ELSE IF IsJSON(o.BodyFormat)
    THEN LET c == CastBodyValues(o, bodyValues, order, [k \in {} |-> [t |-> "nil"]])
         IN  IF c.err.isErr THEN [body |-> <<>>, err |-> c.err]
             ELSE Marshal(c.jsonValues)
    ELSE IF o.BodyFormat = <<"a","p","p","l","i","c","a","t","i","o","n","/","x","-","w","w","w","-","f","o","r","m","-","u","r","l","e","n","c","o","d","e","d">>
    THEN [body |-> Encode(bodyValues), err |-> NoError]
    ELSE [body |-> <<>>, err |-> Error(<<"u","n","s","u","p","p","o","r","t","e","d"," ","b","o","d","y"," ","f","o","r","m","a","t"," ">> \o o.BodyFormat)]

\* The error of http.NewRequest: the URL must parse, so every "%" of its path
\* must start an escape (the methods and server URLs of this model are valid).
NewRequestError(url) ==
    LET q    == IndexChar(url, "?")
        path == IF q = 0 THEN url ELSE SubSeq(url, 1, q - 1)
    IN  IF ValidEscapes(path) THEN NoError
        ELSE Error(<<"p","a","r","s","e"," ">> \o Quote(url) \o <<":"," ">> \o EscapeError(path).msg)

\* "broom/<Version> (<GOOS> <GOARCH>)" of a development build on linux/amd64.
UserAgent == <<"b","r","o","o","m","/","d","e","v"," ","(","l","i","n","u","x"," ","a","m","d","6","4",")">>

\* No request: the nil *http.Request.
NoRequest == [nil |-> TRUE, Method |-> <<>>, URL |-> <<>>, Body |-> <<>>, Header |-> EmptyHeader]

\* Operation.Request building the body before it validates the values.
OperationRequestBodyFirst(o, server, vals, order) ==
    LET ve   == OperationValidate(o, vals)
        url  == requestURL(o, server, vals)
        b    == requestBody(o, vals.Body, order)
        ne   == NewRequestError(url)
        h0   == IF Cardinality(DOMAIN vals.Header) > 0 THEN vals.Header ELSE EmptyHeader
        h1   == IF HasBody(o) THEN HeaderSet(h0, <<"C","o","n","t","e","n","t","-","T","y","p","e">>, o.BodyFormat) ELSE h0
        h2   == HeaderSet(h1, <<"U","s","e","r","-","A","g","e","n","t">>, UserAgent)
    IN  IF b.err.isErr THEN [req |-> NoRequest, err |-> b.err]
        ELSE IF ve.isErr THEN [req |-> NoRequest, err |-> ve]
        ELSE IF ne.isErr THEN [req |-> NoRequest, err |-> ne]
        ELSE [req |-> [nil |-> FALSE, Method |-> o.Method, URL |-> url,
                       Body |-> b.body, Header |-> h2],
              err |-> NoError]

\* Operation.Request setting Content-Type without asking HasBody.
OperationRequestAlwaysContentType(o, server, vals, order) ==
    LET ve   == OperationValidate(o, vals)
        url  == requestURL(o, server, vals)
        b    == requestBody(o, vals.Body, order)
        ne   == NewRequestError(url)
        h0   == IF Cardinality(DOMAIN vals.Header) > 0 THEN vals.Header ELSE EmptyHeader
        h1   == HeaderSet(h0, <<"C","o","n","t","e","n","t","-","T","y","p","e">>, o.BodyFormat)
        h2   == HeaderSet(h1, <<"U","s","e","r","-","A","g","e","n","t">>, UserAgent)
    IN  IF ve.isErr THEN [req |-> NoRequest, err |-> ve]
        ELSE IF b.err.isErr THEN [req |-> NoRequest, err |-> b.err]
        ELSE IF ne.isErr THEN [req |-> NoRequest, err |-> ne]
        ELSE [req |-> [nil |-> FALSE, Method |-> o.Method, URL |-> url,
                       Body |-> b.body, Header |-> h2],
              err |-> NoError]

\* Operation.Request handing out, with the error of the body, the request
\* built so far without a body.
OperationRequestKeepingRequest(o, server, vals, order) ==
    LET ve   == OperationValidate(o, vals)
        url  == requestURL(o, server, vals)
        b    == requestBody(o, vals.Body, order)
        ne   == NewRequestError(url)
        h0   == IF Cardinality(DOMAIN vals.Header) > 0 THEN vals.Header ELSE EmptyHeader
        h1   == IF HasBody(o) THEN HeaderSet(h0, <<"C","o","n","t","e","n","t","-","T","y","p","e">>, o.BodyFormat) ELSE h0
        h2   == HeaderSet(h1, <<"U","s","e","r","-","A","g","e","n","t">>, UserAgent)
    IN  IF ve.isErr THEN [req |-> NoRequest, err |-> ve]
        ELSE IF b.err.isErr
        THEN [req |-> [nil |-> FALSE, Method |-> o.Method, URL |-> url,
                       Body |-> <<>>, Header |-> h2],
              err |-> b.err]
        ELSE IF ne.isErr THEN [req |-> NoRequest, err |-> ne]
        ELSE [req |-> [nil |-> FALSE, Method |-> o.Method, URL |-> url,
                       Body |-> b.body, Header |-> h2],
              err |-> NoError]

\* Operation.Request installing the headers of the user after its own.
OperationRequestUserHeadersLast(o, server, vals, order) ==
    LET ve   == OperationValidate(o, vals)
        url  == requestURL(o, server, vals)
        b    == requestBody(o, vals.Body, order)
        ne   == NewRequestError(url)
        h1   == IF HasBody(o) THEN HeaderSet(EmptyHeader, <<"C","o","n","t","e","n","t","-","T","y","p","e">>, o.BodyFormat)
                ELSE EmptyHeader
        h2   == HeaderSet(h1, <<"U","s","e","r","-","A","g","e","n","t">>, UserAgent)
        h3   == [k \in DOMAIN h2 \cup DOMAIN vals.Header |->
                    IF k \in DOMAIN vals.Header THEN vals.Header[k] ELSE h2[k]]
    IN  IF ve.isErr THEN [req |-> NoRequest, err |-> ve]
        ELSE IF b.err.isErr THEN [req |-> NoRequest, err |-> b.err]
        ELSE IF ne.isErr THEN [req |-> NoRequest, err |-> ne]
        ELSE [req |-> [nil |-> FALSE, Method |-> o.Method, URL |-> url,
                       Body |-> b.body, Header |-> h3],
              err |-> NoError]

\* Operation.Request: the request and the error it returns.
OperationRequest(o, server, vals, order) ==
    LET ve   == OperationValidate(o, vals)
        url  == requestURL(o, server, vals)
        b    == requestBody(o, vals.Body, order)
        ne   == NewRequestError(url)
        h0   == IF Cardinality(DOMAIN vals.Header) > 0 THEN vals.Header ELSE EmptyHeader
        h1   == IF HasBody(o) THEN HeaderSet(h0, <<"C","o","n","t","e","n","t","-","T","y","p","e">>, o.BodyFormat) ELSE h0
        h2   == HeaderSet(h1, <<"U","s","e","r","-","A","g","e","n","t">>, UserAgent)
    IN  IF ve.isErr THEN [req |-> NoRequest, err |-> ve]
        ELSE IF b.err.isErr THEN [req |-> NoRequest, err |-> b.err]
        ELSE IF ne.isErr THEN [req |-> NoRequest, err |-> ne]
        ELSE [req |-> [nil |-> FALSE, Method |-> o.Method, URL |-> url,
                       Body |-> b.body, Header |-> h2],
              err |-> NoError]

(***************************************************************************)
(* RequestValues.                                                          *)
(***************************************************************************)
NoValues == [Header |-> EmptyHeader, Path |-> <<>>, Query |-> EmptyValues, Body |-> EmptyValues]

\* The header loop splitting at every ":" (strings.Split for SplitN) and
\* taking the second piece as the value.
RECURSIVE ParseHeadersSplitAll(_, _)
ParseHeadersSplitAll(headers, h) ==
    IF Len(headers) = 0 THEN [header |-> h, err |-> NoError]
    ELSE LET kv == Split(headers[1], ":")
         IN  IF Len(kv) < 2
             THEN [header |-> h,
                   err |-> Error(<<"p","a","r","s","e"," ","h","e","a","d","e","r",":"," ","c","o","u","l","d"," ","n","o","t"," ","p","a","r","s","e"," ">> \o Quote(headers[1]))]
             ELSE ParseHeadersSplitAll(Tail(headers),
                                       HeaderSet(h, TrimSpace(kv[1]), TrimSpace(kv[2])))

\* The header loop of ParseRequestValues: each string is split at its first
\* ":" and set, name and value trimmed; a string without ":" is an error.
RECURSIVE ParseHeaders(_, _)
ParseHeaders(headers, h) ==
    IF Len(headers) = 0 THEN [header |-> h, err |-> NoError]
    ELSE LET i == IndexChar(headers[1], ":")
         IN  IF i = 0
             THEN [header |-> h,
                   err |-> Error(<<"p","a","r","s","e"," ","h","e","a","d","e","r",":"," ","c","o","u","l","d"," ","n","o","t"," ","p","a","r","s","e"," ">> \o Quote(headers[1]))]
             ELSE ParseHeaders(Tail(headers),
                               HeaderSet(h, TrimSpace(SubSeq(headers[1], 1, i - 1)),
                                         TrimSpace(SliceFrom(headers[1], i))))

\* ParseRequestValues
ParseRequestValues(headers, pathValues, query, body) ==
    LET h == ParseHeaders(headers, EmptyHeader)
        q == ParseQuery(query)
        b == ParseQuery(body)
    IN  IF h.err.isErr THEN [values |-> NoValues, err |-> h.err]
        ELSE IF q.err.isErr
        THEN [values |-> NoValues, err |-> Error(<<"p","a","r","s","e"," ","q","u","e","r","y",":"," ">> \o q.err.msg)]
        ELSE IF b.err.isErr
        THEN [values |-> NoValues, err |-> Error(<<"p","a","r","s","e"," ","b","o","d","y",":"," ">> \o b.err.msg)]
        ELSE [values |-> [Header |-> h.header, Path |-> pathValues,
                          Query |-> q.values, Body |-> b.values],
              err |-> NoError]

(***************************************************************************)
(* Authentication.                                                         *)
(***************************************************************************)
\* AuthConfig: the fields Authenticate reads.
AuthConfig(credentials, command, type, apiKeyHeader) ==
    [Credentials |-> credentials, Command |-> command, Type |-> type,
     APIKeyHeader |-> apiKeyHeader]

\* The alphabet of base64.StdEncoding.
Base64Alphabet == <<"A","B","C","D","E","F","G","H","I","J","K","L","M","N","O","P","Q","R","S","T","U","V","W","X","Y","Z","a","b","c","d","e","f","g","h","i","j","k","l","m","n","o","p","q","r","s","t","u","v","w","x","y","z","0","1","2","3","4","5","6","7","8","9","+","/">>

\* base64.StdEncoding.EncodeToString: every three bytes become four
\* characters of six bits each, the last group is padded with "=".
RECURSIVE Base64(_)
Base64(s) ==
    LET b(i)  == Ord[s[i]]
        ch(n) == <<Base64Alphabet[n + 1]>>
    IN  IF Len(s) = 0 THEN <<>>
        ELSE IF Len(s) = 1
        THEN ch(b(1) \div 4) \o ch((b(1) % 4) * 16) \o <<"=","=">>
        ELSE IF Len(s) = 2
        THEN ch(b(1) \div 4) \o ch((b(1) % 4) * 16 + b(2) \div 16)
             \o ch((b(2) % 16) * 4) \o <<"=">>
        ELSE ch(b(1) \div 4) \o ch((b(1) % 4) * 16 + b(2) \div 16)
             \o ch((b(2) % 16) * 4 + b(3) \div 64) \o ch(b(3) % 64)
             \o Base64(SubSeq(s, 4, Len(s)))

\* One execution of "sh -c command": its exit status and what it wrote.
Run(exit, stdout, stderr) == [exit |-> exit, stdout |-> stdout, stderr |-> stderr]

\* RunCommand, given what the execution of the command did.
RunCommand(command, run) ==
    IF run.exit # 0 THEN [out |-> <<>>, err |-> Error(run.stderr)]
    ELSE [out |-> TrimSpace(run.stdout), err |-> NoError]

\* The switch of Authenticate with Header.Add in place of Header.Set: a
\* header the request already has keeps its value.
ApplyCredentialsAdding(request, cfg, credentials) ==
    LET key == IF cfg.Type = <<"a","p","i","-","k","e","y">>
               THEN (IF cfg.APIKeyHeader = <<>> THEN <<"X","-","A","P","I","-","K","e","y">> ELSE cfg.APIKeyHeader)
               ELSE <<"A","u","t","h","o","r","i","z","a","t","i","o","n">>
        val == IF cfg.Type = <<"b","e","a","r","e","r">> THEN <<"B","e","a","r","e","r"," ">> \o credentials
               ELSE IF cfg.Type = <<"b","a","s","i","c">> THEN <<"B","a","s","i","c"," ">> \o Base64(credentials)
               ELSE credentials
        ck  == CanonicalMIMEHeaderKey(key)
    IN  IF cfg.Type \in {<<"b","e","a","r","e","r">>, <<"b","a","s","i","c">>, <<"a","p","i","-","k","e","y">>}
        THEN [req |-> [request EXCEPT !.Header =
                          IF ck \in DOMAIN @ THEN @ ELSE HeaderSet(@, key, val)],
              err |-> NoError]
        ELSE IF cfg.Type = <<>>
        THEN [req |-> request, err |-> Error(<<"a","u","t","h"," ","t","y","p","e"," ","n","o","t"," ","s","p","e","c","i","f","i","e","d">>)]
        ELSE [req |-> request, err |-> Error(<<"u","n","r","e","c","o","g","n","i","z","e","d"," ","a","u","t","h"," ","t","y","p","e"," ">> \o Quote(cfg.Type))]

\* The switch of Authenticate writing the header before it looks at the
\* type: a type it rejects leaves an Authorization header behind.
ApplyCredentialsSettingFirst(request, cfg, credentials) ==
    LET key == IF cfg.Type = <<"a","p","i","-","k","e","y">>
               THEN (IF cfg.APIKeyHeader = <<>> THEN <<"X","-","A","P","I","-","K","e","y">> ELSE cfg.APIKeyHeader)
               ELSE <<"A","u","t","h","o","r","i","z","a","t","i","o","n">>
        val == IF cfg.Type = <<"b","e","a","r","e","r">> THEN <<"B","e","a","r","e","r"," ">> \o credentials
               ELSE IF cfg.Type = <<"b","a","s","i","c">> THEN <<"B","a","s","i","c"," ">> \o Base64(credentials)
               ELSE credentials
        set == [request EXCEPT !.Header = HeaderSet(@, key, val)]
    IN  IF cfg.Type \in {<<"b","e","a","r","e","r">>, <<"b","a","s","i","c">>, <<"a","p","i","-","k","e","y">>}
        THEN [req |-> set, err |-> NoError]
        ELSE IF cfg.Type = <<>>
        THEN [req |-> set, err |-> Error(<<"a","u","t","h"," ","t","y","p","e"," ","n","o","t"," ","s","p","e","c","i","f","i","e","d">>)]
        ELSE [req |-> set, err |-> Error(<<"u","n","r","e","c","o","g","n","i","z","e","d"," ","a","u","t","h"," ","t","y","p","e"," ">> \o Quote(cfg.Type))]

\* The switch of Authenticate on cfg.Type.
ApplyCredentials(request, cfg, credentials) ==
    IF cfg.Type = <<"b","e","a","r","e","r">>
    THEN [req |-> [request EXCEPT !.Header =
                      HeaderSet(@, <<"A","u","t","h","o","r","i","z","a","t","i","o","n">>, <<"B","e","a","r","e","r"," ">> \o credentials)],
          err |-> NoError]
    ELSE IF cfg.Type = <<"b","a","s","i","c">>
    THEN [req |-> [request EXCEPT !.Header =
                      HeaderSet(@, <<"A","u","t","h","o","r","i","z","a","t","i","o","n">>, <<"B","a","s","i","c"," ">> \o Base64(credentials))],
          err |-> NoError]
    ELSE IF cfg.Type = <<"a","p","i","-","k","e","y">>
    THEN [req |-> [request EXCEPT !.Header =
                      HeaderSet(@, IF cfg.APIKeyHeader = <<>> THEN <<"X","-","A","P","I","-","K","e","y">>
                                   ELSE cfg.APIKeyHeader, credentials)],
          err |-> NoError]
    ELSE IF cfg.Type = <<>>
    THEN [req |-> request, err |-> Error(<<"a","u","t","h"," ","t","y","p","e"," ","n","o","t"," ","s","p","e","c","i","f","i","e","d">>)]
    ELSE [req |-> request, err |-> Error(<<"u","n","r","e","c","o","g","n","i","z","e","d"," ","a","u","t","h"," ","t","y","p","e"," ">> \o Quote(cfg.Type))]

\* Authenticate looking at the type before it looks for a credential source.
AuthenticateTypeFirst(request, cfg, run) ==
    IF cfg.Type = <<>>
    THEN [req |-> request, err |-> Error(<<"a","u","t","h"," ","t","y","p","e"," ","n","o","t"," ","s","p","e","c","i","f","i","e","d">>), runs |-> <<>>]
    ELSE IF cfg.Type \notin {<<"b","e","a","r","e","r">>, <<"b","a","s","i","c">>, <<"a","p","i","-","k","e","y">>}
    THEN [req |-> request, err |-> Error(<<"u","n","r","e","c","o","g","n","i","z","e","d"," ","a","u","t","h"," ","t","y","p","e"," ">> \o Quote(cfg.Type)),
          runs |-> <<>>]
    ELSE IF cfg.Credentials = <<>> /\ cfg.Command = <<>>
    THEN [req |-> request, err |-> NoError, runs |-> <<>>]
    ELSE IF cfg.Command = <<>>
    THEN ApplyCredentials(request, cfg, cfg.Credentials) @@ [runs |-> <<>>]
    ELSE LET rc == RunCommand(cfg.Command, run)
         IN  IF rc.err.isErr
             THEN [req |-> request, err |-> Error(<<"r","u","n"," ","c","o","m","m","a","n","d",":"," ">> \o rc.err.msg),
                   runs |-> <<run>>]
             ELSE IF rc.out = <<>>
             THEN [req |-> request, err |-> Error(<<"r","u","n"," ","c","o","m","m","a","n","d",":"," ","n","o"," ","c","r","e","d","e","n","t","i","a","l","s"," ","r","e","c","e","i","v","e","d">>),
                   runs |-> <<run>>]
             ELSE ApplyCredentials(request, cfg, rc.out) @@ [runs |-> <<run>>]

\* Authenticate preferring the static credentials: the command runs only
\* when none are configured.
AuthenticateStaticFirst(request, cfg, run) ==
    IF cfg.Credentials = <<>> /\ cfg.Command = <<>>
    THEN [req |-> request, err |-> NoError, runs |-> <<>>]
    ELSE IF cfg.Credentials # <<>>
    THEN ApplyCredentials(request, cfg, cfg.Credentials) @@ [runs |-> <<>>]
    ELSE LET rc == RunCommand(cfg.Command, run)
         IN  IF rc.err.isErr
             THEN [req |-> request, err |-> Error(<<"r","u","n"," ","c","o","m","m","a","n","d",":"," ">> \o rc.err.msg),
                   runs |-> <<run>>]
             ELSE IF rc.out = <<>>
             THEN [req |-> request, err |-> Error(<<"r","u","n"," ","c","o","m","m","a","n","d",":"," ","n","o"," ","c","r","e","d","e","n","t","i","a","l","s"," ","r","e","c","e","i","v","e","d">>),
                   runs |-> <<run>>]
             ELSE ApplyCredentials(request, cfg, rc.out) @@ [runs |-> <<run>>]

\* Authenticate: the request as it leaves it, the error it returns and the
\* executions of the command it started; run is what an execution does.
Authenticate(request, cfg, run) ==
    IF cfg.Credentials = <<>> /\ cfg.Command = <<>>
    THEN [req |-> request, err |-> NoError, runs |-> <<>>]
    ELSE IF cfg.Command = <<>>
    THEN ApplyCredentials(request, cfg, cfg.Credentials) @@ [runs |-> <<>>]
    ELSE LET rc == RunCommand(cfg.Command, run)
         IN  IF rc.err.isErr
             THEN [req |-> request, err |-> Error(<<"r","u","n"," ","c","o","m","m","a","n","d",":"," ">> \o rc.err.msg),
                   runs |-> <<run>>]
             ELSE IF rc.out = <<>>
             THEN [req |-> request, err |-> Error(<<"r","u","n"," ","c","o","m","m","a","n","d",":"," ","n","o"," ","c","r","e","d","e","n","t","i","a","l","s"," ","r","e","c","e","i","v","e","d">>),
                   runs |-> <<run>>]
             ELSE ApplyCredentials(request, cfg, rc.out) @@ [runs |-> <<run>>]

(***************************************************************************)
(* The operation catalog: LoadOperations and Operations.ByID.              *)
(***************************************************************************)
\* The table of encoding/hex.
hextable == <<"0","1","2","3","4","5","6","7","8","9","a","b","c","d","e","f">>

\* hex.EncodeToString of the two bytes of a 16-bit number, high byte first.
HexWord(n) ==
    <<hextable[(n \div 4096) + 1], hextable[((n \div 256) % 16) + 1],
      hextable[((n \div 16) % 16) + 1], hextable[(n % 16) + 1]>>

\* hash/adler32: a is one plus the sum of the bytes and b the sum of the
\* values a takes, both modulo 65521; Sum gives b then a, big endian.
Adler32Mod == 65521
RECURSIVE Adler32Update(_, _, _)
Adler32Update(a, b, s) ==
    IF Len(s) = 0 THEN [a |-> a, b |-> b]
    ELSE Adler32Update((a + Ord[s[1]]) % Adler32Mod,
                       (b + ((a + Ord[s[1]]) % Adler32Mod)) % Adler32Mod,
                       Tail(s))
Adler32Hex(s) ==
    LET h == Adler32Update(1, 0, s) IN HexWord(h.b) \o HexWord(h.a)

\* strcase.ToKebab: the string trimmed and in lower case, with "-" written
\* for a space, "_", "-" and "." and inserted where a word begins (a lower
\* case letter or digit followed by a capital, a letter followed by a digit,
\* the last capital of an acronym followed by a lower case letter).
ToKebab(str) ==
    LET s == TrimSpace(str)
        IsCap(c) == c \in Upper
        IsLow(c) == c \in Lower
        IsNum(c) == c \in Digit
        RECURSIVE Conv(_)
        Conv(i) ==
            IF i > Len(s) THEN <<>>
            ELSE LET c == s[i]
                     v == ToLowerChar(c)
                     changes ==
                        /\ i < Len(s)
                        /\ \/ IsCap(c) /\ (IsLow(s[i + 1]) \/ IsNum(s[i + 1]))
                           \/ IsLow(c) /\ (IsCap(s[i + 1]) \/ IsNum(s[i + 1]))
                           \/ IsNum(c) /\ (IsCap(s[i + 1]) \/ IsLow(s[i + 1]))
                 IN  (IF changes
                      THEN (IF IsCap(c) /\ IsLow(s[i + 1]) /\ i > 1 /\ IsCap(s[i - 1])
                            THEN <<"-">> ELSE <<>>)
                           \o <<v>>
                           \o (IF IsLow(c) \/ IsNum(c) \/ IsNum(s[i + 1]) THEN <<"-">> ELSE <<>>)
                      ELSE IF c \in {" ", "_", "-", "."} THEN <<"-">>
                      ELSE <<v>>)
                     \o Conv(i + 1)
    IN  Conv(1)

\* A schema of the description: its types, the schema of its items (NoItems
\* when it has none), its properties in document order and the names it
\* lists as required.
NoItems == [none |-> TRUE]
Schema(type, items, properties, required) ==
    [Type |-> type, Items |-> items, Properties |-> properties, Required |-> required]
Property(name, schema) == [name |-> name, schema |-> schema]

\* A parameter of the description, declared on a path or on an operation.
SpecParameter(in, name, schema, required) ==
    [In |-> in, Name |-> name, Schema |-> schema, Required |-> required]

\* The request body of an operation: its first media type and the schema of
\* that media type; NoRequestBody when the operation declares none.
NoRequestBody == [none |-> TRUE]
RequestBody(format, schema) == [none |-> FALSE, format |-> format, schema |-> schema]

\* The operation of a description under one method of a path: the fields
\* the loader reads.
SpecOperation(operationId, parameters, body) ==
    [OperationId |-> operationId, Parameters |-> parameters, RequestBody |-> body]

\* A path of the description: its own parameters and its operations by method.
PathItem(path, parameters, operations) ==
    [path |-> path, parameters |-> parameters, operations |-> operations]

\* getSchemaType: the first type of the schema, "[]" and the first type of
\* the items for an array that has items.
getSchemaType(schema) ==
    IF schema.Type[1] = <<"a","r","r","a","y">> /\ schema.Items # NoItems
    THEN <<"[","]">> \o schema.Items.Type[1]
    ELSE schema.Type[1]

\* newParameterFromSpec
newParameterFromSpec(specParam) ==
    Param(specParam.In, specParam.Name, getSchemaType(specParam.Schema), <<>>,
          specParam.Required)

\* newBodyParameters looking for the full, prefixed name of a property in
\* the required list of its parent.
RECURSIVE newBodyParametersFullName(_, _)
newBodyParametersFullName(prefix, schema) ==
    LET RECURSIVE OfProperties(_)
        OfProperties(i) ==
            IF i > Len(schema.Properties) THEN <<>>
            ELSE LET propertyName   == schema.Properties[i].name
                     propertySchema == schema.Properties[i].schema
                 IN  (IF getSchemaType(propertySchema) = <<"o","b","j","e","c","t">>
                      THEN newBodyParametersFullName(prefix \o propertyName \o <<".">>,
                                                     propertySchema)
                      ELSE <<Param(<<"b","o","d","y">>, prefix \o propertyName,
                                   getSchemaType(propertySchema), <<>>,
                                   contains(schema.Required, prefix \o propertyName))>>)
                     \o OfProperties(i + 1)
    IN  OfProperties(1)

\* newBodyParameters: the properties of the schema in document order, an
\* object property replaced by the parameters of its own properties.
RECURSIVE newBodyParameters(_, _)
newBodyParameters(prefix, schema) ==
    LET RECURSIVE OfProperties(_)
        OfProperties(i) ==
            IF i > Len(schema.Properties) THEN <<>>
            ELSE LET propertyName   == schema.Properties[i].name
                     propertySchema == schema.Properties[i].schema
                 IN  (IF getSchemaType(propertySchema) = <<"o","b","j","e","c","t">>
                      THEN newBodyParameters(prefix \o propertyName \o <<".">>, propertySchema)
                      ELSE <<Param(<<"b","o","d","y">>, prefix \o propertyName,
                                   getSchemaType(propertySchema), <<>>,
                                   contains(schema.Required, propertyName))>>)
                     \o OfProperties(i + 1)
    IN  OfProperties(1)

\* Parameters{}, the zero value.
NoParameters == [Header |-> <<>>, Path |-> <<>>, Query |-> <<>>, Body |-> <<>>]

\* Parameters.Add: each parameter appended to the list of its location, a
\* parameter of any other location left out.
RECURSIVE ParametersAdd(_, _)
ParametersAdd(ps, params) ==
    IF Len(params) = 0 THEN ps
    ELSE LET p == params[1]
         IN  ParametersAdd(
                IF p.In = <<"h","e","a","d","e","r">> THEN [ps EXCEPT !.Header = Append(@, p)]
                ELSE IF p.In = <<"p","a","t","h">> THEN [ps EXCEPT !.Path = Append(@, p)]
                ELSE IF p.In = <<"q","u","e","r","y">> THEN [ps EXCEPT !.Query = Append(@, p)]
                ELSE IF p.In = <<"b","o","d","y">> THEN [ps EXCEPT !.Body = Append(@, p)]
                ELSE ps,
                Tail(params))

\* The methods LoadOperations looks for, in the order it does.
Methods == <<<<"G","E","T">>, <<"P","O","S","T">>, <<"P","U","T">>, <<"P","A","T","C","H">>, <<"D","E","L","E","T","E">>>>

\* newOperationFromSpec adding the parameters of the operation before those
\* of the path.
newOperationFromSpecOperationFirst(method, path, params, specOp) ==
    LET declared == [i \in DOMAIN specOp.Parameters |->
                       newParameterFromSpec(specOp.Parameters[i])]
                    \o [i \in DOMAIN params |-> newParameterFromSpec(params[i])]
        body     == IF specOp.RequestBody = NoRequestBody THEN <<>>
                    ELSE newBodyParameters(<<>>, specOp.RequestBody.schema)
    IN  [ID         |-> IF ToKebab(specOp.OperationId) = <<>> THEN Adler32Hex(path)
                        ELSE ToKebab(specOp.OperationId),
         Method     |-> method,
         Path       |-> path,
         Parameters |-> ParametersAdd(NoParameters, declared \o body),
         BodyFormat |-> IF specOp.RequestBody = NoRequestBody THEN <<>>
                        ELSE specOp.RequestBody.format]

\* newOperationFromSpec: the id, method and path of the operation, the
\* parameters of the path, then those of the operation, then those of the
\* request body.
newOperationFromSpec(method, path, params, specOp) ==
    LET declared == [i \in DOMAIN params |-> newParameterFromSpec(params[i])]
                    \o [i \in DOMAIN specOp.Parameters |->
                           newParameterFromSpec(specOp.Parameters[i])]
        body     == IF specOp.RequestBody = NoRequestBody THEN <<>>
                    ELSE newBodyParameters(<<>>, specOp.RequestBody.schema)
    IN  [ID         |-> IF ToKebab(specOp.OperationId) = <<>> THEN Adler32Hex(path)
                        ELSE ToKebab(specOp.OperationId),
         Method     |-> method,
         Path       |-> path,
         Parameters |-> ParametersAdd(NoParameters, declared \o body),
         BodyFormat |-> IF specOp.RequestBody = NoRequestBody THEN <<>>
                        ELSE specOp.RequestBody.format]

\* LoadOperations: the operations of the paths in document order, those of
\* one path in the order of Methods.
RECURSIVE LoadOperations(_)
LoadOperations(pathItems) ==
    IF Len(pathItems) = 0 THEN <<>>
    ELSE LET item == pathItems[1]
             RECURSIVE OfMethods(_)
             OfMethods(i) ==
                IF i > Len(Methods) THEN <<>>
                ELSE (IF Methods[i] \in DOMAIN item.operations
                      THEN <<newOperationFromSpec(Methods[i], item.path, item.parameters,
                                                  item.operations[Methods[i]])>>
                      ELSE <<>>) \o OfMethods(i + 1)
         IN  OfMethods(1) \o LoadOperations(Tail(pathItems))

\* Operation{}, the zero value.
NoOperation == [ID |-> <<>>, Method |-> <<>>, Path |-> <<>>,
                Parameters |-> NoParameters, BodyFormat |-> <<>>]

\* Operations.ByID: the first operation with the id.
ByID(operations, id) ==
    IF \E i \in DOMAIN operations : operations[i].ID = id
    THEN [op |-> operations[CHOOSE i \in DOMAIN operations :
                               /\ operations[i].ID = id
                               /\ \A j \in 1..(i - 1) : operations[j].ID # id],
          ok |-> TRUE]
    ELSE [op |-> NoOperation, ok |-> FALSE]

\* No lookup made yet.
NoLookup == [id |-> <<>>, op |-> NoOperation, ok |-> FALSE, asked |-> FALSE]

(***************************************************************************)
(* The operations and the command lines the model draws from.              *)
(***************************************************************************)
\* How many path parameters an operation of the path family declares at most.
MaxPathParams == 2

Operation(method, path, header, pathParams, query, body, bodyFormat) ==
    [Method |-> method, Path |-> path,
     Parameters |-> [Header |-> header, Path |-> pathParams, Query |-> query, Body |-> body],
     BodyFormat |-> bodyFormat]

\* A path template as the description gives it: literal text and placeholders.
Lit(text) == [ph |-> FALSE, text |-> text]
Ph(name)  == [ph |-> TRUE, text |-> name]
RECURSIVE TemplateText(_)
TemplateText(tpl) ==
    IF Len(tpl) = 0 THEN <<>>
    ELSE (IF tpl[1].ph THEN <<"{">> \o tpl[1].text \o <<"}">> ELSE tpl[1].text)
         \o TemplateText(Tail(tpl))

PathTemplates ==
    { <<Lit(<<"/","u","/">>), Ph(<<"a">>), Lit(<<"/","o","/">>), Ph(<<"b">>)>>,
      <<Lit(<<"/">>), Ph(<<"b">>), Ph(<<"a">>), Lit(<<"/">>), Ph(<<"a">>)>>,
      <<Lit(<<"/","u","/">>), Ph(<<"c">>), Lit(<<"/">>), Ph(<<"a">>)>> }

PathParam(name) == Param(<<"p","a","t","h">>, name, <<"s","t","r","i","n","g">>, <<>>, TRUE)

\* The path family: every template with every list of up to MaxPathParams path
\* parameters named a or b (a name may repeat: Parameters.Add appends the path
\* level and the operation level declarations without looking at names).
PathOps ==
    { Operation(<<"G","E","T">>, TemplateText(tpl), <<>>,
                [i \in DOMAIN names |-> PathParam(names[i])], <<>>, <<>>, <<>>) :
        tpl \in PathTemplates, names \in SeqsUpTo({<<"a">>, <<"b">>}, MaxPathParams) }

\* Path values: text that URL escaping would change, text that looks like a
\* placeholder, a bad escape.
PathValueTexts == {<<"x","/","y">>, <<"{","b","}">>, <<"%","z","z">>}

PathValuesFor(o) == SeqsUpTo(PathValueTexts, Len(o.Parameters.Path) + MaxExtra)

\* The query family.
QueryQ == Param(<<"q","u","e","r","y">>, <<"q">>, <<"s","t","r","i","n","g">>, <<>>, TRUE)
QueryS == Param(<<"q","u","e","r","y">>, <<"s">>, <<"s","t","r","i","n","g">>, <<<<"x">>, <<"y">>>>, FALSE)
QueryR == Param(<<"q","u","e","r","y">>, <<"r">>, <<"s","t","r","i","n","g">>, <<<<"x">>, <<"y">>>>, TRUE)

QueryOps ==
    { Operation(<<"G","E","T">>, <<"/","u">>, <<>>, <<>>, q, <<>>, <<>>) :
        q \in {<<>>, <<QueryQ>>, <<QueryS>>, <<QueryQ, QueryS>>, <<QueryS, QueryQ>>, <<QueryR>>} }

\* The body family.
BodyFormats ==
    { <<>>, <<"a","p","p","l","i","c","a","t","i","o","n","/","j","s","o","n">>, <<"a","p","p","l","i","c","a","t","i","o","n","/","h","a","l","+","j","s","o","n">>,
      <<"a","p","p","l","i","c","a","t","i","o","n","/","x","-","w","w","w","-","f","o","r","m","-","u","r","l","e","n","c","o","d","e","d">>, <<"a","p","p","l","i","c","a","t","i","o","n","/","x","m","l">> }

BodyParam(name, type, enum, required) == Param(<<"b","o","d","y">>, name, type, enum, required)

BodyParamLists ==
    { << BodyParam(<<"u","s","e","r">>, <<>>, <<>>, FALSE),
         BodyParam(<<"s","t","a","t","u","s">>, <<"b","o","o","l","e","a","n">>, <<>>, FALSE),
         BodyParam(<<"s","t","o","r","a","g","e">>, <<"i","n","t","e","g","e","r">>, <<>>, FALSE),
         BodyParam(<<"l","u","c","k","y">>, <<"[","]","i","n","t","e","g","e","r">>, <<>>, FALSE),
         BodyParam(<<"v","c","p","u">>, <<"n","u","m","b","e","r">>, <<>>, FALSE),
         BodyParam(<<"m","e","t","a",".","p","u","b","l","i","s","h","e","d">>, <<"b","o","o","l","e","a","n">>, <<>>, FALSE) >>,
      << BodyParam(<<"s","t","a","t","u","s">>, <<"b","o","o","l","e","a","n">>, <<>>, TRUE),
         BodyParam(<<"k","i","n","d">>, <<"s","t","r","i","n","g">>, <<<<"a">>, <<"b">>>>, FALSE) >> }

BodyOps ==
    { Operation(<<"P","O","S","T">>, <<"/","u">>, <<>>, <<>>, <<>>, b, f) :
        b \in BodyParamLists, f \in BodyFormats }

\* The mixed family: a required query parameter and a JSON body.
MixedOps ==
    { Operation(<<"P","O","S","T">>, <<"/","u">>, <<>>, <<>>, <<QueryQ>>,
                << BodyParam(<<"s","t","a","t","u","s">>, <<"b","o","o","l","e","a","n">>, <<>>, TRUE),
                   BodyParam(<<"s","t","o","r","a","g","e">>, <<"i","n","t","e","g","e","r">>, <<>>, FALSE) >>,
                <<"a","p","p","l","i","c","a","t","i","o","n","/","j","s","o","n">>) }

\* The cast family: a JSON body with one parameter v of each type.
CastTypes ==
    { <<>>, <<"s","t","r","i","n","g">>, <<"b","o","o","l","e","a","n">>, <<"i","n","t","e","g","e","r">>, <<"n","u","m","b","e","r">>, <<"o","b","j","e","c","t">>,
      <<"[","]","s","t","r","i","n","g">>, <<"[","]","b","o","o","l","e","a","n">>, <<"[","]","i","n","t","e","g","e","r">>, <<"[","]","n","u","m","b","e","r">> }

CastOps ==
    { Operation(<<"P","O","S","T">>, <<"/","u">>, <<>>, <<>>, <<>>,
                <<BodyParam(<<"v">>, t, <<>>, FALSE)>>, <<"a","p","p","l","i","c","a","t","i","o","n","/","j","s","o","n">>) :
        t \in CastTypes }

\* The values typed for v on the command line (before form decoding).
CastTexts ==
    { <<>>, <<"t","r","u","e">>, <<"f","a","l","s","e">>, <<"1">>, <<"0">>, <<"t">>, <<"F">>, <<"T","r","u","e">>, <<"T","R","U","E">>, <<"t","R","u","E">>,
      <<"y","e","s">>, <<"i","n","v","a","l","i","d">>, <<"4","2">>, <<"-","7">>, <<"%","2","B","5">>, <<"0","0","7">>, <<"-","0">>, <<"3",".","2">>, <<"0","x","1","0">>,
      <<"1","_","0","0","0">>, <<"%","2","0","5">>, <<"9","2","2","3","3","7","2","0","3","6","8","5","4","7","7","5","8","0","7">>, <<"9","2","2","3","3","7","2","0","3","6","8","5","4","7","7","5","8","0","8">>,
      <<"-","9","2","2","3","3","7","2","0","3","6","8","5","4","7","7","5","8","0","8">>, <<"-","9","2","2","3","3","7","2","0","3","6","8","5","4","7","7","5","8","0","9">>, <<"0",".","5","0">>, <<"1",",","7">>, <<"N","a","N">>,
      <<"-","i","n","f">>, <<"1","e">>, <<"4",",","8",",","1","5">>, <<"4",",","e","i","g","h","t",",","x">>, <<"t","r","u","e",",","m","a","y","b","e">>, <<"a",",",",","b">>, <<",">> }

\* The values typed for a declared parameter: some fitting its type and enum,
\* some not, and the empty value.
ValueTextsFor(p) ==
    {<<>>} \cup
    (IF Len(p.Enum) > 0 THEN {p.Enum[1], <<"z","z">>}
     ELSE IF p.Type = <<"b","o","o","l","e","a","n">> THEN {<<"t","r","u","e">>, <<"i","n","v","a","l","i","d">>}
     ELSE IF p.Type = <<"i","n","t","e","g","e","r">> THEN {<<"2","0","4","8","0">>, <<"3",".","2">>}
     ELSE IF p.Type = <<"n","u","m","b","e","r">> THEN {<<"0",".","5">>, <<"N","a","N">>}
     ELSE IF p.Type = <<"[","]","i","n","t","e","g","e","r">> THEN {<<"4",",","8",",","1","5">>, <<"4",",","e","i","g","h","t",",","x">>}
     ELSE {<<"x">>, <<"U"," ","S">>})

\* key=value settings for the declared parameters and for one undeclared key.
SettingsFor(pl, undeclared) ==
    UNION { { pl[i].Name \o <<"=">> \o v : v \in ValueTextsFor(pl[i]) } : i \in DOMAIN pl }
    \cup { undeclared \o <<"=">> \o v : v \in {<<"j","s","@","d","o","m","a","i","n">>} }

\* The query or body strings of up to n settings.
StringsOf(settings, n) == { Join(q, <<"&">>) : q \in SeqsUpTo(settings, n) }

QueryStringsFor(o, n) == StringsOf(SettingsFor(o.Parameters.Query, <<"z">>), n)
BodyStringsFor(o, n)  == StringsOf(SettingsFor(o.Parameters.Body, <<"e","m","a","i","l">>), n)

\* The header family: an operation without a body and one with a JSON body,
\* neither with parameters, called with header strings.
HeaderOps ==
    { Operation(<<"G","E","T">>, <<"/","u">>, <<>>, <<>>, <<>>, <<>>, <<>>),
      Operation(<<"P","O","S","T">>, <<"/","u">>, <<>>, <<>>, <<>>, <<>>, <<"a","p","p","l","i","c","a","t","i","o","n","/","j","s","o","n">>) }

\* Header strings: plain, with further colons, with spaces around the name and
\* the value, a Content-Type in lower case, and one without a colon.
HeaderTexts ==
    { <<"X","-","A",":"," ","1">>, <<"A","c","c","e","p","t",":","a",":","b",":"," ","c">>, <<" ","x","-","a"," ",":"," "," ","v"," ","w"," ">>, <<"c","o","n","t","e","n","t","-","t","y","p","e",":"," ","t","e","x","t","/","p","l","a","i","n">>, <<"b","a","d">> }

HeaderStrings == SeqsUpTo(HeaderTexts, MaxHeaders)

\* The order family: an operation with a required header parameter, a path
\* parameter, two required query parameters and two body parameters, called
\* with command lines that get several of them wrong at once.
OrderOps ==
    { Operation(<<"P","O","S","T">>, <<"/","u","/","{","a","}">>,
                <<Param(<<"h","e","a","d","e","r">>, <<"X","-","T","r","a","c","e">>, <<"s","t","r","i","n","g">>, <<>>, TRUE)>>,
                <<PathParam(<<"a">>)>>,
                <<QueryQ, QueryR>>,
                << BodyParam(<<"s","t","a","t","u","s">>, <<"b","o","o","l","e","a","n">>, <<>>, TRUE),
                   BodyParam(<<"k","i","n","d">>, <<"s","t","r","i","n","g">>, <<<<"a">>, <<"b">>>>, FALSE) >>,
                <<"a","p","p","l","i","c","a","t","i","o","n","/","j","s","o","n">>) }
OrderHeaderStrings == {<<>>, <<<<"X","-","T","r","a","c","e",":"," ","1">>>>}
OrderPathValues == {<<>>, <<<<"x">>>>}
OrderQueryStrings == {<<>>, <<"q","=","x">>, <<"r","=","x">>, <<"r","=","z","z">>, <<"q","=","x","&","r","=","x">>, <<"q","=","x","&","r","=","z","z">>}
OrderBodyStrings ==
    {<<>>, <<"s","t","a","t","u","s","=","t","r","u","e">>, <<"k","i","n","d","=","z","z">>, <<"s","t","a","t","u","s","=","t","r","u","e","&","k","i","n","d","=","z","z">>, <<"s","t","a","t","u","s","=","t","r","u","e","&","k","i","n","d","=","a">>}

Args(headers, path, query, body) ==
    [headers |-> headers, path |-> path, query |-> query, body |-> body]

\* The operation and the header arguments of the commands that authenticate.
AuthOps == {Operation(<<"G","E","T">>, <<"/","u">>, <<>>, <<>>, <<>>, <<>>, <<>>)}
AuthHeaderStrings ==
    { <<>>, <<<<"A","u","t","h","o","r","i","z","a","t","i","o","n",":"," ","o","l","d">>>>, <<<<"x","-","m","y","a","p","p","-","k","e","y",":"," ","o","l","d">>, <<"X","-","A",":"," ","1">>>>,
      <<<<"U","s","e","r","-","A","g","e","n","t",":"," ","c","u","r","l">>, <<"C","o","n","t","e","n","t","-","T","y","p","e",":"," ","t","e","x","t","/","p","l","a","i","n">>>> }

\* The auth sections of the profiles.
NoAuth == AuthConfig(<<>>, <<>>, <<>>, <<>>)
AuthConfigs ==
    { AuthConfig(c, m, t, h) :
        c \in {<<>>, <<"M","Y","K","E","Y">>, <<"m","y","u","s","e","r",":","m","y","p","a","s","s">>},
        m \in {<<>>, <<"g","e","t","-","t","o","k","e","n">>},
        t \in {<<>>, <<"b","e","a","r","e","r">>, <<"b","a","s","i","c">>, <<"a","p","i","-","k","e","y">>, <<"a","p","i","k","e","y">>},
        h \in {<<>>, <<"X","-","M","y","A","p","p","-","K","e","y">>} }

\* What an execution of the credential command can do: print a token with
\* white space around it, print only white space, or fail.
NL == <<"\n">>
CommandRuns ==
    { Run(0, <<" ","t","o","k","1">> \o NL, <<>>),
      Run(0, <<"t","o","k","2">>, <<"w","a","r","n","i","n","g">> \o NL),
      Run(0, <<" ">> \o NL, <<>>),
      Run(1, <<"t","o","k","1">> \o NL, <<"d","e","n","i","e","d">> \o NL) }

\* The server URLs of the profiles: one without and one with a trailing slash.
ServerURLs == {<<"h","t","t","p","s",":","/","/","a","p","i",".","t","e","s","t">>, <<"h","t","t","p","s",":","/","/","a","p","i",".","t","e","s","t","/">>}

(***************************************************************************)
(* The state machine: a client of the engine parses its command line into  *)
(* RequestValues and asks the selected operation for a request.            *)
(***************************************************************************)
Init ==
    /\ serverURL \in ServerURLs
    /\ values = NoValues
    /\ req = NoRequest
    /\ err = NoError
    /\ pc = "start"
    /\ ran = <<>>
    /\ calls = 0
    /\ doc = <<>>
    /\ catalog = <<>>
    /\ previous = <<>>
    /\ loads = 0
    /\ found = NoLookup
    /\ \/ /\ auth = NoAuth
          /\ \/ /\ op \in PathOps
                /\ args \in {Args(<<>>, p, <<>>, <<>>) : p \in PathValuesFor(op)}
             \/ /\ op \in QueryOps
                /\ args \in {Args(<<>>, <<>>, q, <<>>) : q \in QueryStringsFor(op, MaxPairs)}
             \/ /\ op \in BodyOps
                /\ args \in {Args(<<>>, <<>>, <<>>, b) : b \in BodyStringsFor(op, MaxPairs)}
             \/ /\ op \in MixedOps
                /\ args \in {Args(<<>>, <<>>, q, b) :
                                q \in QueryStringsFor(op, 1), b \in BodyStringsFor(op, MaxPairs)}
             \/ /\ op \in CastOps
                /\ args \in {Args(<<>>, <<>>, <<>>, <<"v","=">> \o t) : t \in CastTexts}
             \/ /\ op \in OrderOps
                /\ args \in {Args(h, p, q, b) :
                                h \in OrderHeaderStrings, p \in OrderPathValues,
                                q \in OrderQueryStrings, b \in OrderBodyStrings}
             \/ /\ op \in HeaderOps
                /\ args \in {Args(h, <<>>, <<>>, b) :
                                h \in HeaderStrings, b \in {<<>>, <<"u","s","e","r","=","x">>}}
       \/ /\ auth \in AuthConfigs
          /\ op \in AuthOps
          /\ args \in {Args(h, <<>>, <<>>, <<>>) : h \in AuthHeaderStrings}

\* values, err := ParseRequestValues(headers, pathValues, query, body)
Parse ==
    /\ pc = "start"
    /\ \E r \in {ParseRequestValues(args.headers, args.path, args.query, args.body)} :
           /\ values' = r.values
           /\ err' = r.err
           /\ pc' = IF r.err.isErr THEN "parse_error" ELSE "parsed"
    /\ UNCHANGED <<op, serverURL, args, req, auth, ran, calls>>
    /\ UNCHANGED catalogVars

\* req, err := op.Request(serverURL, values); Go iterates the body values in
\* an unspecified order.
Request ==
    /\ pc = "parsed"
    /\ \E order \in Orders(DOMAIN values.Body) :
          \E r \in {OperationRequest(op, serverURL, values, order)} :
              /\ req' = r.req
              /\ err' = r.err
              /\ pc' = IF r.err.isErr THEN "request_error" ELSE "built"
    /\ UNCHANGED <<op, serverURL, args, values, auth, ran, calls>>
    /\ UNCHANGED catalogVars

\* err := Authenticate(req, profileCfg.Auth); the credential command does
\* whatever it does in this execution.
AuthenticateCall ==
    /\ pc \in {"built", "authenticated"}
    /\ calls < MaxCalls
    /\ \E run \in CommandRuns :
          \E r \in {Authenticate(req, auth, run)} :
              /\ req' = r.req
              /\ err' = r.err
              /\ ran' = ran \o r.runs
              /\ pc' = IF r.err.isErr THEN "auth_error" ELSE "authenticated"
    /\ calls' = calls + 1
    /\ UNCHANGED <<op, serverURL, args, values, auth>>
    /\ UNCHANGED catalogVars

Next == Parse \/ Request \/ AuthenticateCall

Spec == Init /\ [][Next]_vars

(***************************************************************************)
(* The catalog machine: a client loads the description, possibly again,    *)
(* and looks an operation up by id.                                        *)
(***************************************************************************)
\* The paths and the operation ids descriptions declare; "" is an operation
\* without an operationId.
DocPaths == {<<"/","u","s","e","r","s">>, <<"/","u","s","e","r","s","/","{","u","s","e","r","I","d","}">>, <<"/","u">>}
GetIds == {<<>>, <<"g","e","t","U","s","e","r">>}
PostIds == {<<>>, <<"g","e","t","_","u","s","e","r">>}

\* The path items of a path: GET, POST or both.
PathItemsOf(path) ==
    {PathItem(path, <<>>, [m \in {<<"G","E","T">>} |-> SpecOperation(g, <<>>, NoRequestBody)]) : g \in GetIds}
    \cup {PathItem(path, <<>>, [m \in {<<"P","O","S","T">>} |-> SpecOperation(p, <<>>, NoRequestBody)]) : p \in PostIds}
    \cup {PathItem(path, <<>>, [m \in {<<"G","E","T">>, <<"P","O","S","T">>} |->
                             SpecOperation(IF m = <<"G","E","T">> THEN g ELSE p, <<>>, NoRequestBody)]) :
             g \in GetIds, p \in PostIds}

\* The descriptions: up to MaxPaths different paths in any document order.
Documents ==
    {d \in SeqsUpTo(UNION {PathItemsOf(p) : p \in DocPaths}, MaxPaths) :
        \A i, j \in DOMAIN d : i # j => d[i].path # d[j].path}

\* Scalar and array schemas.
Scalar(type) == Schema(<<type>>, NoItems, <<>>, <<>>)
ArrayOf(items) == Schema(<<<<"a","r","r","a","y">>>>, items, <<>>, <<>>)
Object(properties, required) == Schema(<<<<"o","b","j","e","c","t">>>>, NoItems, properties, required)

\* The sequences without repetition of at most n elements of a set.
DistinctSeqsUpTo(S, n) ==
    {q \in SeqsUpTo(S, n) : \A i, j \in DOMAIN q : i # j => q[i] # q[j]}

\* The parameters a path item and an operation declare. A list declares a
\* parameter once; an operation may declare again, with another schema, a
\* parameter its path item declares.
PathLevelParameters ==
    { SpecParameter(<<"p","a","t","h">>, <<"u","s","e","r","I","d">>, Scalar(<<"s","t","r","i","n","g">>), TRUE),
      SpecParameter(<<"p","a","t","h">>, <<"o","r","d","e","r","I","d">>, Scalar(<<"s","t","r","i","n","g">>), TRUE),
      SpecParameter(<<"q","u","e","r","y">>, <<"u","s","e","r","I","d">>, Scalar(<<"s","t","r","i","n","g">>), FALSE),
      SpecParameter(<<"h","e","a","d","e","r">>, <<"X","-","T","r","a","c","e">>, Scalar(<<"s","t","r","i","n","g">>), TRUE),
      SpecParameter(<<"c","o","o","k","i","e">>, <<"s","i","d">>, Scalar(<<"s","t","r","i","n","g">>), FALSE) }
OperationLevelParameters ==
    { SpecParameter(<<"p","a","t","h">>, <<"u","s","e","r","I","d">>, Scalar(<<"i","n","t","e","g","e","r">>), TRUE),
      SpecParameter(<<"p","a","t","h">>, <<"i","t","e","m","I","d">>, Scalar(<<"i","n","t","e","g","e","r">>), TRUE),
      SpecParameter(<<"q","u","e","r","y">>, <<"s","o","r","t">>, ArrayOf(Scalar(<<"s","t","r","i","n","g">>)), FALSE),
      SpecParameter(<<"h","e","a","d","e","r">>, <<"X","-","T","r","a","c","e">>, Scalar(<<"i","n","t","e","g","e","r">>), FALSE),
      SpecParameter(<<"c","o","o","k","i","e">>, <<"s","i","d">>, Scalar(<<"i","n","t","e","g","e","r">>), FALSE) }

\* The descriptions with declared parameters: one path with one operation.
ParameterDocuments ==
    { <<PathItem(<<"/","u","s","e","r","s","/","{","u","s","e","r","I","d","}">>, pl,
                 [m \in {<<"G","E","T">>} |-> SpecOperation(<<"g","e","t","U","s","e","r">>, ol, NoRequestBody)])>> :
        pl \in DistinctSeqsUpTo(PathLevelParameters, MaxDeclared),
        ol \in DistinctSeqsUpTo(OperationLevelParameters, MaxDeclared) }

\* The schemas of the properties of a request body: scalars, arrays, and
\* objects nested up to three deep.
LeafSchemas ==
    { Scalar(<<"s","t","r","i","n","g">>), ArrayOf(Scalar(<<"i","n","t","e","g","e","r">>)) }
ArraySchemas ==
    { ArrayOf(Object(<<Property(<<"x">>, Scalar(<<"s","t","r","i","n","g">>))>>, <<>>)),
      ArrayOf(ArrayOf(Scalar(<<"n","u","m","b","e","r">>))) }
NestedSchemas ==
    { Object(<<>>, <<>>),
      Object(<<Property(<<"x">>, Scalar(<<"n","u","m","b","e","r">>)),
               Property(<<"y">>, ArrayOf(Scalar(<<"s","t","r","i","n","g">>)))>>, <<<<"y">>>>),
      Object(<<Property(<<"a">>, Object(<<Property(<<"q">>, Scalar(<<"i","n","t","e","g","e","r">>))>>, <<<<"q">>>>)),
               Property(<<"x">>, Scalar(<<"s","t","r","i","n","g">>))>>, <<<<"a">>>>) }
PropertyNames == {<<"a">>, <<"b">>, <<"c">>}
RequiredLists == {<<>>, <<<<"b">>>>, <<<<"a">>, <<"b">>>>}

\* The body schemas: up to MaxProperties properties of different names.
BodySchemas ==
    { Object(props, required) :
        props \in { q \in SeqsUpTo({Property(n, sch) :
                                      n \in PropertyNames,
                                      sch \in LeafSchemas \cup ArraySchemas \cup NestedSchemas},
                                   MaxProperties) :
                      \A i, j \in DOMAIN q : i # j => q[i].name # q[j].name },
        required \in RequiredLists }

\* The descriptions with a request body: one path with one operation.
BodyDocuments ==
    { <<PathItem(<<"/","u","s","e","r","s">>, <<>>,
                 [m \in {<<"P","O","S","T">>} |->
                    SpecOperation(<<"c","r","e","a","t","e","U","s","e","r">>, <<>>,
                                  RequestBody(<<"a","p","p","l","i","c","a","t","i","o","n","/","j","s","o","n">>, sch))])>> :
        sch \in BodySchemas }

\* The ids a user asks for: those the catalog lists, and one it never has.
LookupIds == {catalog[i].ID : i \in DOMAIN catalog} \cup {<<"d","e","l","e","t","e","-","u","s","e","r">>}

CatalogInit ==
    /\ doc \in Documents \cup ParameterDocuments \cup BodyDocuments
    /\ catalog = <<>>
    /\ previous = <<>>
    /\ loads = 0
    /\ found = NoLookup
    /\ op = Operation(<<"G","E","T">>, <<"/","u">>, <<>>, <<>>, <<>>, <<>>, <<>>)
    /\ serverURL = <<"h","t","t","p","s",":","/","/","a","p","i",".","t","e","s","t">>
    /\ args = Args(<<>>, <<>>, <<>>, <<>>)
    /\ values = NoValues
    /\ req = NoRequest
    /\ err = NoError
    /\ auth = NoAuth
    /\ ran = <<>>
    /\ calls = 0
    /\ pc = "start"

\* ops, err := broom.LoadOperations(profileCfg.SpecFile)
Load ==
    /\ loads < MaxLoads
    /\ ~found.asked
    /\ catalog' = LoadOperations(doc)
    /\ previous' = catalog
    /\ loads' = loads + 1
    /\ UNCHANGED <<doc, found>>
    /\ UNCHANGED engineVars

\* op, ok := ops.ByID(opID)
Lookup ==
    /\ loads > 0
    /\ ~found.asked
    /\ \E id \in LookupIds :
          \E r \in {ByID(catalog, id)} :
              found' = [id |-> id, op |-> r.op, ok |-> r.ok, asked |-> TRUE]
    /\ UNCHANGED <<doc, catalog, previous, loads>>
    /\ UNCHANGED engineVars

CatalogNext == Load \/ Lookup

CatalogSpec == CatalogInit /\ [][CatalogNext]_vars

(***************************************************************************)
(* Properties of the engine.                                               *)
(***************************************************************************)
\* Operation.Request has returned.
Returned == pc \in {"built", "request_error"}

\* The supplied path values are at least as many as the declared parameters.
ArityHolds == Len(values.Path) >= Len(op.Parameters.Path)

\* The values with the path values beyond the declared parameters left out.
WithoutExtraPathValues ==
    [values EXCEPT !.Path = SubSeq(values.Path, 1, Len(op.Parameters.Path))]

TooFewMessage ==
    <<"t","o","o"," ","f","e","w"," ","p","a","t","h"," ","p","a","r","a","m","e","t","e","r","s",":"," ","g","o","t"," ">> \o Itoa(Len(values.Path))
    \o <<","," ","w","a","n","t"," ">> \o Itoa(Len(op.Parameters.Path))

\* C1: building a request fails with "too few path parameters: got <n>, want
\* <m>" exactly when fewer path values are supplied than path parameters are
\* declared; otherwise there is no arity error, and the values beyond the
\* declared parameters change nothing of what is returned (URL included).
C1_PathArity ==
    Returned =>
        /\ (err = Error(TooFewMessage)) <=> ~ArityHolds
        /\ ~ArityHolds => req = NoRequest
        /\ ArityHolds => ~HasPrefix(err.msg, <<"t","o","o"," ","f","e","w"," ","p","a","t","h"," ","p","a","r","a","m","e","t","e","r","s">>)
        /\ Len(values.Path) > Len(op.Parameters.Path) =>
              \E order \in Orders(DOMAIN values.Body) :
                  \E r \in {OperationRequest(op, serverURL, WithoutExtraPathValues, order)} :
                      /\ r.err = err
                      /\ r.req = req

C1_Witness ==
    /\ pc = "request_error"
    /\ Len(op.Parameters.Path) = 2
    /\ Len(values.Path) = 1
    /\ err.msg = <<"t","o","o"," ","f","e","w"," ","p","a","t","h"," ","p","a","r","a","m","e","t","e","r","s",":"," ","g","o","t"," ","1",","," ","w","a","n","t"," ","2">>

\* The value a placeholder is replaced by: the value at the position of the
\* first declared path parameter of its name; a placeholder that no declared
\* path parameter names stays in the path.
PlaceholderValue(name) ==
    IF \E i \in DOMAIN op.Parameters.Path : op.Parameters.Path[i].Name = name
    THEN values.Path[CHOOSE i \in DOMAIN op.Parameters.Path :
                        /\ op.Parameters.Path[i].Name = name
                        /\ \A j \in 1..(i - 1) : op.Parameters.Path[j].Name # name]
    ELSE <<"{">> \o name \o <<"}">>

RECURSIVE Substituted(_)
Substituted(tpl) ==
    IF Len(tpl) = 0 THEN <<>>
    ELSE (IF tpl[1].ph THEN PlaceholderValue(tpl[1].text) ELSE tpl[1].text)
         \o Substituted(Tail(tpl))

CheckedParameters == op.Parameters.Query \o op.Parameters.Body

\* The raw value of a parameter: the first value supplied under its name in
\* its location, the empty string when the name is not supplied.
RawValue(p) ==
    LET supplied == IF p.In = <<"q","u","e","r","y">> THEN values.Query ELSE values.Body
    IN  IF p.Name \in DOMAIN supplied THEN supplied[p.Name][1] ELSE <<>>

MissingMessage(p) ==
    <<"m","i","s","s","i","n","g"," ","r","e","q","u","i","r","e","d"," ">> \o p.In \o <<" ","p","a","r","a","m","e","t","e","r"," ","\"">> \o p.Name \o <<"\"">>

EnumMessage(p) ==
    <<"i","n","v","a","l","i","d"," ","v","a","l","u","e"," ","f","o","r"," ">> \o p.In \o <<" ","p","a","r","a","m","e","t","e","r"," ","\"">> \o p.Name
    \o <<"\""," ","(","a","l","l","o","w","e","d"," ","v","a","l","u","e","s",":"," ">> \o Join(p.Enum, <<","," ">>) \o <<")">>

IsMissing(p) == p.Required /\ RawValue(p) = <<>>

IsOutsideEnum(p) ==
    /\ RawValue(p) # <<>>
    /\ Len(p.Enum) > 0
    /\ \A i \in DOMAIN p.Enum : p.Enum[i] # RawValue(p)

IsInvalid(p) == IsMissing(p) \/ IsOutsideEnum(p)

\* The i-th checked parameter is the first one that is invalid.
FirstInvalid(i) ==
    /\ IsInvalid(CheckedParameters[i])
    /\ \A j \in 1..(i - 1) : ~IsInvalid(CheckedParameters[j])

\* C3: validation reports "missing required <location> parameter "<name>""
\* for a parameter only when it is required and its raw value is empty, and
\* always when it is the first invalid parameter for that reason; a key that
\* is absent and a key given the empty string are both an empty raw value.
C3_MissingRequired ==
    Returned /\ ArityHolds =>
        \A i \in DOMAIN CheckedParameters :
            /\ err = Error(MissingMessage(CheckedParameters[i]))
                  => IsMissing(CheckedParameters[i])
            /\ IsMissing(CheckedParameters[i]) /\ FirstInvalid(i)
                  => /\ err = Error(MissingMessage(CheckedParameters[i]))
                     /\ req = NoRequest

C3_Witness ==
    /\ pc = "request_error"
    /\ \E i \in DOMAIN op.Parameters.Query :
          /\ op.Parameters.Query[i].Required
          /\ op.Parameters.Query[i].Name \in DOMAIN values.Query
          /\ values.Query[op.Parameters.Query[i].Name] = << <<>> >>
          /\ err = Error(MissingMessage(op.Parameters.Query[i]))

\* C4: validation reports "invalid value for <location> parameter "<name>"
\* (allowed values: ...)" for a parameter only when its enum is not empty and
\* its raw value is not empty and not in the enum, and always when it is the
\* first invalid parameter for that reason; an empty value and a parameter
\* without an enum are never refused by the enum check.
C4_Enum ==
    Returned /\ ArityHolds =>
        \A i \in DOMAIN CheckedParameters :
            /\ err = Error(EnumMessage(CheckedParameters[i]))
                  => IsOutsideEnum(CheckedParameters[i])
            /\ IsOutsideEnum(CheckedParameters[i]) /\ FirstInvalid(i)
                  => /\ err = Error(EnumMessage(CheckedParameters[i]))
                     /\ req = NoRequest
            /\ RawValue(CheckedParameters[i]) = <<>> \/ Len(CheckedParameters[i].Enum) = 0
                  => ~HasPrefix(err.msg, <<"i","n","v","a","l","i","d"," ","v","a","l","u","e"," ","f","o","r"," ">>
                                   \o CheckedParameters[i].In \o <<" ","p","a","r","a","m","e","t","e","r"," ","\"">>
                                   \o CheckedParameters[i].Name \o <<"\"">>)

C4_Witness ==
    /\ pc = "request_error"
    /\ \E i \in DOMAIN op.Parameters.Query :
          /\ RawValue(op.Parameters.Query[i]) = <<"z","z">>
          /\ err.msg = <<"i","n","v","a","l","i","d"," ","v","a","l","u","e"," ","f","o","r"," ","q","u","e","r","y"," ","p","a","r","a","m","e","t","e","r"," ","\"","s","\""," ","(","a","l","l","o","w","e","d"," ","v","a","l","u","e","s",":"," ","x",","," ","y",")">>

SomeInvalid == \E i \in DOMAIN CheckedParameters : IsInvalid(CheckedParameters[i])

\* The body value supplied under the name has a declared parameter whose type
\* does not take it, in an operation with a JSON body.
Uncastable(name) ==
    /\ IsJSON(op.BodyFormat)
    /\ HasName(op.Parameters.Body, name)
    /\ CastString(ByName(op.Parameters.Body, name), values.Body[name][1]).err.isErr

SomeUncastable == \E name \in DOMAIN values.Body : Uncastable(name)

IsValidationError ==
    \E i \in DOMAIN CheckedParameters :
        err \in {Error(MissingMessage(CheckedParameters[i])),
                 Error(EnumMessage(CheckedParameters[i]))}

IsCastError == HasPrefix(err.msg, <<"c","o","u","l","d"," ","n","o","t"," ","p","r","o","c","e","s","s"," ">>)

\* C5: validation runs before casting: when the input has both an invalid
\* query or body parameter and a body value that cannot be cast, the error
\* returned is the validation error; a cast error is returned only when every
\* query and body parameter is valid.
C5_ValidationBeforeCasting ==
    Returned /\ ArityHolds =>
        /\ SomeInvalid /\ SomeUncastable
              => pc = "request_error" /\ IsValidationError /\ ~IsCastError
        /\ IsCastError => ~SomeInvalid

C5_Witness ==
    /\ pc = "request_error"
    /\ IsJSON(op.BodyFormat)
    /\ Len(op.Parameters.Query) = 1
    /\ IsMissing(op.Parameters.Query[1])
    /\ <<"s","t","a","t","u","s">> \in DOMAIN values.Body
    /\ Uncastable(<<"s","t","a","t","u","s">>)
    /\ err.msg = <<"m","i","s","s","i","n","g"," ","r","e","q","u","i","r","e","d"," ","q","u","e","r","y"," ","p","a","r","a","m","e","t","e","r"," ","\"","q","\"">>

\* The operation is of the family with the one body parameter v, and v is
\* supplied (once).
CastCase == Returned /\ op \in CastOps /\ DOMAIN values.Body = {<<"v">>}
CastType == op.Parameters.Body[1].Type
CastRaw  == values.Body[<<"v">>][1]

CastMessage(raw, type) ==
    <<"c","o","u","l","d"," ","n","o","t"," ","p","r","o","c","e","s","s"," ","v",":"," ">> \o Quote(raw) \o <<" ","i","s"," ","n","o","t"," ","a"," ","v","a","l","i","d"," ">> \o type

\* The request is refused because raw is not of the type.
CastFails(raw, type) ==
    /\ pc = "request_error"
    /\ req = NoRequest
    /\ err = Error(CastMessage(raw, type))

\* The request is built and its body gives v the JSON text.
BuiltWithV(text) ==
    /\ pc = "built"
    /\ err = NoError
    /\ req.Body = <<"{","\"","v","\"",":">> \o text \o <<"}">>

\* An optional sign and one or more decimal digits.
IsBase10(s) ==
    LET digits == IF Len(s) > 0 /\ s[1] \in {"+", "-"} THEN Tail(s) ELSE s
    IN  Len(digits) > 0 /\ \A i \in DOMAIN digits : digits[i] \in Digit

\* The base-10 string s stands for a value of -2^63 .. 2^63 - 1.
FitsInt64(s) ==
    LET digits == IF s[1] \in {"+", "-"} THEN Tail(s) ELSE s
    IN  DecLeq(StripZeros(digits),
               IF s[1] = "-" THEN <<"9","2","2","3","3","7","2","0","3","6","8","5","4","7","7","5","8","0","8">> ELSE <<"9","2","2","3","3","7","2","0","3","6","8","5","4","7","7","5","8","0","7">>)

\* The decimal text of the value of the base-10 string s.
DecimalText(s) ==
    LET digits == StripZeros(IF s[1] \in {"+", "-"} THEN Tail(s) ELSE s)
    IN  IF s[1] = "-" /\ digits # <<"0">> THEN <<"-">> \o digits ELSE digits

\* C6: a scalar body value of a JSON body is cast by its parameter's type:
\* boolean takes exactly the spellings 1, t, T, TRUE, true, True (true) and 0,
\* f, F, FALSE, false, False (false); integer takes exactly the base-10
\* strings of the int64 values; string and every unknown type take every
\* string unchanged; a value the type does not take is refused with "could
\* not process <name>: "<raw>" is not a valid <type>" and nothing is built.
C6_ScalarCast ==
    CastCase /\ ~HasPrefix(CastType, <<"[","]">>) =>
        /\ CastType = <<"b","o","o","l","e","a","n">> =>
              IF CastRaw \in {<<"1">>, <<"t">>, <<"T">>, <<"T","R","U","E">>, <<"t","r","u","e">>, <<"T","r","u","e">>}
              THEN BuiltWithV(<<"t","r","u","e">>)
              ELSE IF CastRaw \in {<<"0">>, <<"f">>, <<"F">>, <<"F","A","L","S","E">>, <<"f","a","l","s","e">>, <<"F","a","l","s","e">>}
              THEN BuiltWithV(<<"f","a","l","s","e">>)
              ELSE CastFails(CastRaw, <<"b","o","o","l","e","a","n">>)
        /\ CastType = <<"i","n","t","e","g","e","r">> =>
              IF IsBase10(CastRaw) /\ FitsInt64(CastRaw)
              THEN BuiltWithV(DecimalText(CastRaw))
              ELSE CastFails(CastRaw, <<"i","n","t","e","g","e","r">>)
        /\ CastType \notin {<<"b","o","o","l","e","a","n">>, <<"i","n","t","e","g","e","r">>, <<"n","u","m","b","e","r">>} =>
              BuiltWithV(JSONString(CastRaw))
        /\ IsCastError => CastFails(CastRaw, CastType)

C6_Witness ==
    /\ CastCase
    /\ CastType = <<"i","n","t","e","g","e","r">>
    /\ CastRaw = <<"9","2","2","3","3","7","2","0","3","6","8","5","4","7","7","5","8","0","8">>
    /\ req = NoRequest
    /\ err.msg = <<"c","o","u","l","d"," ","n","o","t"," ","p","r","o","c","e","s","s"," ","v",":"," ","\"","9","2","2","3","3","7","2","0","3","6","8","5","4","7","7","5","8","0","8","\""," ","i","s"," ","n","o","t"," ","a"," ","v","a","l","i","d"," ","i","n","t","e","g","e","r">>

\* The pieces of the raw value of v and the element type of its array type.
CastPieceTexts == Split(CastRaw, ",")
CastElemType   == SliceFrom(CastType, 2)
PieceFails(i)  == ~parseStr(CastPieceTexts[i], CastElemType).ok

\* C7: a body value of type array-of-T is split on "," and every piece is cast
\* as T: the array has one element per piece, in order (the pieces joined by
\* "," are the raw value, so a value without a comma is one piece); when a
\* piece fails, the leftmost failing piece and T are named in the error and
\* nothing is built.
C7_ArrayCast ==
    CastCase /\ HasPrefix(CastType, <<"[","]">>) =>
        /\ Join(CastPieceTexts, <<",">>) = CastRaw
        /\ IF \E i \in DOMAIN CastPieceTexts : PieceFails(i)
           THEN CastFails(CastPieceTexts[CHOOSE i \in DOMAIN CastPieceTexts :
                                            /\ PieceFails(i)
                                            /\ \A j \in 1..(i - 1) : ~PieceFails(j)],
                          CastElemType)
           ELSE /\ CastElemType # <<"n","u","m","b","e","r">> => pc = "built"
                /\ pc = "built" =>
                      BuiltWithV(<<"[">>
                                 \o Join([i \in DOMAIN CastPieceTexts |->
                                            JSONValue(parseStr(CastPieceTexts[i],
                                                               CastElemType).v)],
                                         <<",">>)
                                 \o <<"]">>)

C7_Witness ==
    /\ CastCase
    /\ CastType = <<"[","]","i","n","t","e","g","e","r">>
    /\ CastRaw = <<"4",",","e","i","g","h","t",",","x">>
    /\ req = NoRequest
    /\ err.msg = <<"c","o","u","l","d"," ","n","o","t"," ","p","r","o","c","e","s","s"," ","v",":"," ","\"","e","i","g","h","t","\""," ","i","s"," ","n","o","t"," ","a"," ","v","a","l","i","d"," ","i","n","t","e","g","e","r">>

PassesValidation == ArityHolds /\ ~SomeInvalid
PassesCasting    == ~SomeUncastable

\* The member a supplied body key has in the JSON object: the value cast by
\* the body parameter of that name, the raw string when there is none.
ExpectedMember(name) ==
    JSONString(name) \o <<":">>
    \o (IF HasName(op.Parameters.Body, name)
        THEN JSONValue(CastString(ByName(op.Parameters.Body, name),
                                  values.Body[name][1]).v)
        ELSE JSONString(values.Body[name][1]))

ExpectedObject ==
    LET keys == SortStrings(DOMAIN values.Body)
    IN  <<"{">> \o Join([i \in DOMAIN keys |-> ExpectedMember(keys[i])], <<",">>) \o <<"}">>

\* C8: for a JSON body format and input that passes validation and casting,
\* the body is the JSON object of exactly the supplied body keys, each with
\* its cast value (its raw string when no body parameter has its name), the
\* keys in ascending order.
C8_JSONBody ==
    Returned /\ IsJSON(op.BodyFormat) /\ PassesValidation /\ PassesCasting =>
        /\ pc = "built"
        /\ req.Body = ExpectedObject

\* C9: in a JSON body a supplied key with "." is written as a leaf of nested
\* objects and is itself absent from the object: meta.published=true gives
\* {"meta":{"published":true}}.
C9_NestedKeys ==
    pc = "built" /\ IsJSON(op.BodyFormat) =>
        /\ \A name \in DOMAIN values.Body :
              Contains(name, <<".">>) => ~Contains(req.Body, JSONString(name) \o <<":">>)
        /\ (/\ DOMAIN values.Body = {<<"m","e","t","a",".","p","u","b","l","i","s","h","e","d">>}
            /\ values.Body[<<"m","e","t","a",".","p","u","b","l","i","s","h","e","d">>] = <<<<"t","r","u","e">>>>
            /\ HasName(op.Parameters.Body, <<"m","e","t","a",".","p","u","b","l","i","s","h","e","d">>))
              => req.Body = <<"{","\"","m","e","t","a","\"",":","{","\"","p","u","b","l","i","s","h","e","d","\"",":","t","r","u","e","}","}">>

FormFormat == <<"a","p","p","l","i","c","a","t","i","o","n","/","x","-","w","w","w","-","f","o","r","m","-","u","r","l","e","n","c","o","d","e","d">>

\* C10: for the form format and input that passes validation, the body is the
\* form encoding of the body values as they were supplied: it is built
\* whatever the declared types are, it parses back to exactly the supplied
\* values, and every supplied key (dotted or undeclared too) is in it with
\* its escaped raw value.
C10_FormBody ==
    Returned /\ op.BodyFormat = FormFormat /\ PassesValidation =>
        /\ pc = "built"
        /\ ~ParseQuery(req.Body).err.isErr
        /\ ParseQuery(req.Body).values = values.Body
        /\ \A name \in DOMAIN values.Body :
              Contains(<<"&">> \o req.Body \o <<"&">>,
                       <<"&">> \o QueryEscape(name) \o <<"=">>
                       \o QueryEscape(values.Body[name][1]) \o <<"&">>)

C10_Witness ==
    /\ pc = "built"
    /\ op.BodyFormat = FormFormat
    /\ DOMAIN values.Body = {<<"m","e","t","a",".","p","u","b","l","i","s","h","e","d">>, <<"s","t","o","r","a","g","e">>}
    /\ values.Body[<<"s","t","o","r","a","g","e">>] = <<<<"3",".","2">>>>
    /\ values.Body[<<"m","e","t","a",".","p","u","b","l","i","s","h","e","d">>] = <<<<"i","n","v","a","l","i","d">>>>
    /\ req.Body = <<"m","e","t","a",".","p","u","b","l","i","s","h","e","d","=","i","n","v","a","l","i","d","&","s","t","o","r","a","g","e","=","3",".","2">>


\* The body format is set and is neither a JSON media type nor the form format.
UnsupportedFormat ==
    /\ op.BodyFormat # <<>>
    /\ ~Contains(op.BodyFormat, <<"j","s","o","n">>)
    /\ op.BodyFormat # FormFormat

UnsupportedMessage == <<"u","n","s","u","p","p","o","r","t","e","d"," ","b","o","d","y"," ","f","o","r","m","a","t"," ">> \o op.BodyFormat

\* C11 as stated: with such a format every request-build attempt fails with
\* "unsupported body format <format>", whatever the input.
C11_UnsupportedWhateverInput ==
    Returned /\ UnsupportedFormat =>
        pc = "request_error" /\ err = Error(UnsupportedMessage)

\* C11: with a body format that is neither JSON nor the form format every
\* request-build attempt fails and nothing is built; the error is
\* "unsupported body format <format>" for every input that passes validation
\* (arity, query and body parameters), and the validation error otherwise.
C11_UnsupportedFormat ==
    Returned /\ UnsupportedFormat =>
        /\ pc = "request_error"
        /\ req = NoRequest
        /\ PassesValidation => err = Error(UnsupportedMessage)
        /\ ~PassesValidation => IsValidationError \/ err = Error(TooFewMessage)

C11_Witness ==
    /\ pc = "request_error"
    /\ op.BodyFormat = <<"a","p","p","l","i","c","a","t","i","o","n","/","x","m","l">>
    /\ <<"s","t","a","t","u","s">> \in DOMAIN values.Body
    /\ err.msg = <<"u","n","s","u","p","p","o","r","t","e","d"," ","b","o","d","y"," ","f","o","r","m","a","t"," ","a","p","p","l","i","c","a","t","i","o","n","/","x","m","l">>

\* What the header map holds under Content-Type, <<>> when it has no such key.
ContentTypeOf(header) ==
    IF <<"C","o","n","t","e","n","t","-","T","y","p","e">> \in DOMAIN header THEN header[<<"C","o","n","t","e","n","t","-","T","y","p","e">>] ELSE <<>>

\* C12: an operation takes a body exactly when its body format is not empty:
\* with an empty format the built request has an empty body whatever body
\* values are supplied and Content-Type is left as the caller's headers have
\* it (absent when they have none); with a non-empty format every built
\* request has the one Content-Type value bodyFormat.
C12_BodyIffFormat ==
    pc = "built" =>
        IF op.BodyFormat = <<>>
        THEN /\ req.Body = <<>>
             /\ ContentTypeOf(req.Header) = ContentTypeOf(values.Header)
             /\ (<<"C","o","n","t","e","n","t","-","T","y","p","e">> \in DOMAIN req.Header)
                    <=> (<<"C","o","n","t","e","n","t","-","T","y","p","e">> \in DOMAIN values.Header)
        ELSE /\ <<"C","o","n","t","e","n","t","-","T","y","p","e">> \in DOMAIN req.Header
             /\ req.Header[<<"C","o","n","t","e","n","t","-","T","y","p","e">>] = <<op.BodyFormat>>

C12_Witness ==
    /\ pc = "built"
    /\ op.BodyFormat = <<>>
    /\ DOMAIN values.Body # {}
    /\ req.Body = <<>>
    /\ <<"C","o","n","t","e","n","t","-","T","y","p","e">> \notin DOMAIN req.Header

\* The built URL up to its first "?" and what follows that "?".
URLBeforeQuery ==
    IF IndexChar(req.URL, "?") = 0 THEN req.URL
    ELSE SubSeq(req.URL, 1, IndexChar(req.URL, "?") - 1)

URLQuery ==
    IF IndexChar(req.URL, "?") = 0 THEN <<>>
    ELSE SliceFrom(req.URL, IndexChar(req.URL, "?"))

\* The keys of the encoded query, decoded, in the order they are written.
URLQueryKeys ==
    LET pairs == Split(URLQuery, "&")
    IN  [i \in DOMAIN pairs |-> QueryUnescape(CutEquals(pairs[i])[1])]

\* The path with its placeholders replaced, as C2 describes it.
SubstitutedPath == Replace(PathReplacements(op, values), op.Path)

\* C13: the built URL has a "?" followed by the encoded query exactly when
\* there is at least one query value; the encoded query lists the keys in
\* ascending order, writes a space as "+" and decodes to exactly the supplied
\* query values (keys of no declared parameter included); without query
\* values the URL ends with the substituted path.
C13_QueryEncoding ==
    pc = "built" =>
        /\ Contains(req.URL, <<"?">>) <=> DOMAIN values.Query # {}
        /\ URLBeforeQuery = serverURL \o SubstitutedPath
        /\ DOMAIN values.Query # {} =>
              /\ ~ParseQuery(URLQuery).err.isErr
              /\ ParseQuery(URLQuery).values = values.Query
              /\ \A i, j \in DOMAIN URLQueryKeys :
                    i < j => ~StrLess(URLQueryKeys[j], URLQueryKeys[i])
              /\ ~Contains(URLQuery, <<" ">>)
              /\ ~Contains(URLQuery, <<"%","2","0">>)
              /\ \A k \in DOMAIN values.Query :
                    Contains(values.Query[k][1], <<" ">>) => Contains(URLQuery, <<"+">>)

C13_Witness ==
    /\ pc = "built"
    /\ args.query = <<"z","=","j","s","@","d","o","m","a","i","n","&","q","=","U"," ","S">>
    /\ req.URL = <<"h","t","t","p","s",":","/","/","a","p","i",".","t","e","s","t","/","u","?","q","=","U","+","S","&","z","=","j","s","%","4","0","d","o","m","a","i","n">>

\* The server URL without its trailing slash, if it has one.
TrimmedServerURL ==
    IF Len(serverURL) > 0 /\ serverURL[Len(serverURL)] = "/"
    THEN SubSeq(serverURL, 1, Len(serverURL) - 1)
    ELSE serverURL

\* C14: the request URL is the server URL with one trailing slash removed if
\* it has one, followed by the substituted path and the query, so that no
\* "//" stands before the path.
C14_TrailingSlash ==
    pc = "built" =>
        /\ URLBeforeQuery = TrimmedServerURL \o SubstitutedPath
        /\ ~HasPrefix(SliceFrom(req.URL, Len(TrimmedServerURL)), <<"/","/">>)

\* The position of the first ":" of a header string, the name before it and
\* the value after it.
HasColon(h) == \E k \in DOMAIN h : h[k] = ":"
FirstColon(h) == CHOOSE k \in DOMAIN h : h[k] = ":" /\ \A j \in 1..(k - 1) : h[j] # ":"
HeaderName(h) == CanonicalMIMEHeaderKey(TrimSpace(SubSeq(h, 1, FirstColon(h) - 1)))
HeaderValue(h) == TrimSpace(SubSeq(h, FirstColon(h) + 1, Len(h)))

\* Parse has returned.
Parsed == pc \in {"parsed", "parse_error"}

\* C15: ParseRequestValues splits a header string at its first ":" only: the
\* (trimmed) text after it, further ":" included, is the value of the header
\* named before it, the last string of a name giving its value; a header
\* string without ":" fails the parse with an error that quotes the first
\* such string, and no RequestValues are returned.
C15_HeaderParsing ==
    Parsed /\ Len(args.headers) > 0 =>
        IF \E i \in DOMAIN args.headers : ~HasColon(args.headers[i])
        THEN /\ pc = "parse_error"
             /\ values = NoValues
             /\ \E i \in DOMAIN args.headers :
                   /\ ~HasColon(args.headers[i])
                   /\ \A j \in 1..(i - 1) : HasColon(args.headers[j])
                   /\ err = Error(<<"p","a","r","s","e"," ","h","e","a","d","e","r",":"," ","c","o","u","l","d"," ","n","o","t"," ","p","a","r","s","e"," ","\"">>
                                  \o args.headers[i] \o <<"\"">>)
        ELSE /\ pc = "parsed"
             /\ DOMAIN values.Header = {HeaderName(args.headers[i]) : i \in DOMAIN args.headers}
             /\ \A i \in DOMAIN args.headers :
                   (\A j \in (i + 1)..Len(args.headers) :
                        HeaderName(args.headers[j]) # HeaderName(args.headers[i]))
                   => values.Header[HeaderName(args.headers[i])]
                          = <<HeaderValue(args.headers[i])>>

C15_Witness ==
    /\ pc = "parsed"
    /\ args.headers = <<<<"A","c","c","e","p","t",":","a",":","b",":"," ","c">>>>
    /\ values.Header[<<"A","c","c","e","p","t">>] = <<<<"a",":","b",":"," ","c">>>>

\* The values with only the first value of every key kept.
FirstValuesOf(m) == [k \in DOMAIN m |-> <<m[k][1]>>]

\* C16: of a key that occurs more than once in the query string or the body
\* string only the first value is consumed: the encoded query of the built
\* URL, the form body and the JSON body hold the first value of every key
\* and none of the later ones.
C16_FirstValueOnly ==
    pc = "built" =>
        /\ DOMAIN values.Query # {} =>
              ParseQuery(URLQuery).values = FirstValuesOf(values.Query)
        /\ op.BodyFormat = FormFormat =>
              ParseQuery(req.Body).values = FirstValuesOf(values.Body)
        /\ IsJSON(op.BodyFormat) /\ PassesCasting => req.Body = ExpectedObject

(***************************************************************************)
(* C17 - C19: Authenticate.                                                *)
(***************************************************************************)
\* A step that is one call of Authenticate.
IsAuthenticateCall == calls' = calls + 1

\* Whether the call ran the credential command, and the execution it ran.
CommandRan == Len(ran') = Len(ran) + 1
ThisRun == ran'[Len(ran')]

\* The command printed something other than white space and exited with 0.
Yields(run) == run.exit = 0 /\ \E i \in DOMAIN run.stdout : run.stdout[i] \notin WhiteSpace

\* The credential source the profile makes active has credentials: the
\* command when one is configured, the static credentials otherwise.
ActiveSourcePresent ==
    IF auth.Command # <<>> THEN CommandRan /\ Yields(ThisRun) ELSE auth.Credentials # <<>>

\* Some credential source has credentials: static ones are configured, or
\* the command yields some.
AnySourcePresent ==
    \/ auth.Credentials # <<>>
    \/ auth.Command # <<>> /\ CommandRan /\ Yields(ThisRun)

RecognisedTypes == {<<"b","e","a","r","e","r">>, <<"b","a","s","i","c">>, <<"a","p","i","-","k","e","y">>}
TypeMissing == Error(<<"a","u","t","h"," ","t","y","p","e"," ","n","o","t"," ","s","p","e","c","i","f","i","e","d">>)
TypeUnrecognised == Error(<<"u","n","r","e","c","o","g","n","i","z","e","d"," ","a","u","t","h"," ","t","y","p","e"," ","\"">> \o auth.Type \o <<"\"">>)

\* The three parts of the claim, for a given reading of "a credential source
\* is present".
TypeErrorsExactlyWhen(present) ==
    /\ err' = TypeMissing <=> (present /\ auth.Type = <<>>)
    /\ err' = TypeUnrecognised <=>
          (present /\ auth.Type # <<>> /\ auth.Type \notin RecognisedTypes)
    /\ (auth.Credentials = <<>> /\ auth.Command = <<>>)
          => (err' = NoError /\ req' = req /\ ran' = ran)

\* C17 as stated: Authenticate returns "auth type not specified" exactly when
\* a credential source (static credentials, or a command yielding non-empty
\* output) is present and the type is empty, an error naming the type exactly
\* when a source is present and the type is not empty and not recognised, and
\* is a no-op without error when neither credentials nor command are set.
C17_AnySource == [][IsAuthenticateCall => TypeErrorsExactlyWhen(AnySourcePresent)]_vars

\* C17, amended: the same with the source being the active one, so that
\* static credentials count only when no command is configured.
C17_TypeErrors == [][IsAuthenticateCall => TypeErrorsExactlyWhen(ActiveSourcePresent)]_vars

\* A call with a command that printed a token and no type: the type error.
C17_Witness ==
    /\ pc = "auth_error"
    /\ auth.Type = <<>>
    /\ auth.Command = <<"g","e","t","-","t","o","k","e","n">>
    /\ ran = <<Run(0, <<" ","t","o","k","1">> \o NL, <<>>)>>
    /\ err = Error(<<"a","u","t","h"," ","t","y","p","e"," ","n","o","t"," ","s","p","e","c","i","f","i","e","d">>)

\* The credentials a call works with: the trimmed output of the command it
\* ran, the static credentials when no command is configured.
CredentialsUsed ==
    IF auth.Command # <<>> THEN TrimSpace(ThisRun.stdout) ELSE auth.Credentials

\* The base64 texts of the credentials of this model, as RFC 4648 gives them.
Base64Of(c) ==
    IF c = <<"M","Y","K","E","Y">> THEN <<"T","V","l","L","R","V","k","=">>
    ELSE IF c = <<"m","y","u","s","e","r",":","m","y","p","a","s","s">> THEN <<"b","X","l","1","c","2","V","y","O","m","1","5","c","G","F","z","c","w","=","=">>
    ELSE IF c = <<"t","o","k","1">> THEN <<"d","G","9","r","M","Q","=","=">>
    ELSE IF c = <<"t","o","k","2">> THEN <<"d","G","9","r","M","g","=","=">>
    ELSE <<"?">>

\* The header a recognised type asks for: its name and its value.
AuthHeaderName ==
    IF auth.Type = <<"a","p","i","-","k","e","y">>
    THEN (IF auth.APIKeyHeader = <<>> THEN <<"X","-","A","P","I","-","K","e","y">> ELSE auth.APIKeyHeader)
    ELSE <<"A","u","t","h","o","r","i","z","a","t","i","o","n">>
AuthHeaderValue ==
    IF auth.Type = <<"b","e","a","r","e","r">> THEN <<"B","e","a","r","e","r"," ">> \o CredentialsUsed
    ELSE IF auth.Type = <<"b","a","s","i","c">> THEN <<"B","a","s","i","c"," ">> \o Base64Of(CredentialsUsed)
    ELSE CredentialsUsed

\* Header names are compared without regard to case, as HTTP does.
SameHeaderName(a, b) == ToLower(a) = ToLower(b)

\* C18: with credentials c and a recognised type, Authenticate returns no
\* error, sets one header (Authorization to "Bearer c" for bearer and to
\* "Basic base64(c)" for basic; the override, or X-API-Key without one, to c
\* for api-key) and leaves every other header and the rest of the request
\* unchanged.
C18_OneHeader ==
    [][(IsAuthenticateCall /\ ActiveSourcePresent /\ auth.Type \in RecognisedTypes) =>
        /\ err' = NoError
        /\ \E k \in DOMAIN req'.Header :
              /\ SameHeaderName(k, AuthHeaderName)
              /\ req'.Header[k] = <<AuthHeaderValue>>
              /\ DOMAIN req'.Header \ {k} = DOMAIN req.Header \ {k}
              /\ \A j \in DOMAIN req.Header \ {k} : req'.Header[j] = req.Header[j]
              /\ \A j \in DOMAIN req.Header : SameHeaderName(j, k) => j = k
        /\ [req' EXCEPT !.Header = req.Header] = req
      ]_vars

\* A basic call on a request that already had an Authorization header.
C18_Witness ==
    /\ pc = "authenticated"
    /\ calls = 1
    /\ args.headers = <<<<"A","u","t","h","o","r","i","z","a","t","i","o","n",":"," ","o","l","d">>>>
    /\ auth = AuthConfig(<<"m","y","u","s","e","r",":","m","y","p","a","s","s">>, <<>>, <<"b","a","s","i","c">>, <<>>)
    /\ req.Header = [k \in {<<"A","u","t","h","o","r","i","z","a","t","i","o","n">>, <<"U","s","e","r","-","A","g","e","n","t">>} |->
                        IF k = <<"U","s","e","r","-","A","g","e","n","t">> THEN <<UserAgent>>
                        ELSE <<<<"B","a","s","i","c"," ","b","X","l","1","c","2","V","y","O","m","1","5","c","G","F","z","c","w","=","=">>>>]

\* The standard output of an execution from its first to its last character
\* that is not white space.
Trimmed(run) ==
    LET inked == {i \in DOMAIN run.stdout : run.stdout[i] \notin WhiteSpace}
        first == CHOOSE i \in inked : \A j \in inked : i <= j
        last  == CHOOSE i \in inked : \A j \in inked : j <= i
    IN  IF inked = {} THEN <<>> ELSE SubSeq(run.stdout, first, last)

\* The value the header of a recognised type gets from credentials c.
HeaderValueFor(c) ==
    IF auth.Type = <<"b","e","a","r","e","r">> THEN <<"B","e","a","r","e","r"," ">> \o c
    ELSE IF auth.Type = <<"b","a","s","i","c">> THEN <<"B","a","s","i","c"," ">> \o Base64Of(c)
    ELSE c

DeclaredFor(o) ==
    LET i == CHOOSE k \in DOMAIN doc : doc[k].path = o.Path
    IN  doc[i].operations[o.Method]

\* The slug of the identifiers descriptions declare here.
SlugOf(operationId) ==
    IF operationId \in {<<"g","e","t","U","s","e","r">>, <<"g","e","t","_","u","s","e","r">>} THEN <<"g","e","t","-","u","s","e","r">>
    ELSE IF operationId = <<"c","r","e","a","t","e","U","s","e","r">> THEN <<"c","r","e","a","t","e","-","u","s","e","r">>
    ELSE <<>>

\* The Adler-32 checksums of the paths, as zlib gives them.
PathHash(path) ==
    IF path = <<"/","u","s","e","r","s">> THEN <<"0","7","b","b","0","2","6","2">>
    ELSE IF path = <<"/","u","s","e","r","s","/","{","u","s","e","r","I","d","}">> THEN <<"2","e","7","2","0","5","f","5">>
    ELSE IF path = <<"/","u">> THEN <<"0","0","d","5","0","0","a","5">>
    ELSE <<>>

LowerHex == Digit \cup {"a", "b", "c", "d", "e", "f"}

\* The id is the slug of the declared identifier, the hash of the path when
\* none is declared.
IdAsDerived(o) ==
    /\ o.ID # <<>>
    /\ IF DeclaredFor(o).OperationId # <<>>
       THEN o.ID = SlugOf(DeclaredFor(o).OperationId)
       ELSE /\ o.ID = PathHash(o.Path)
            /\ Len(o.ID) = 8
            /\ \A k \in DOMAIN o.ID : o.ID[k] \in LowerHex

\* The ids of a catalog, in its order.
IdsOf(operations) == [i \in DOMAIN operations |-> operations[i].ID]

\* C20: every operation of a loaded catalog has a non-empty id, the slug of
\* its declared identifier or the 8 digit lower case hex hash of its path; a
\* second load of the description gives the same ids; and asking ByID for the
\* id of an operation of the catalog returns that operation.
C20_Addressable ==
    /\ \A i \in DOMAIN catalog : IdAsDerived(catalog[i])
    /\ loads >= 2 => IdsOf(catalog) = IdsOf(previous)
    /\ found.asked =>
          \A i \in DOMAIN catalog :
              catalog[i].ID = found.id => (found.ok /\ found.op = catalog[i])

\* The three parts of C20 one by one: the first two hold, the third fails.
C20_IdsDerived == \A i \in DOMAIN catalog : IdAsDerived(catalog[i])
C20_IdsRepeat == loads >= 2 => IdsOf(catalog) = IdsOf(previous)

(***************************************************************************)
(* C21 - C25: the order and the parameters of a loaded catalog.            *)
(***************************************************************************)
\* The position of a method in GET, POST, PUT, PATCH, DELETE.
MethodRank(method) == CHOOSE i \in DOMAIN Methods : Methods[i] = method

\* C21: the catalog is in ascending order of path and, within a path, in the
\* order GET, POST, PUT, PATCH, DELETE, whatever the order of the paths in
\* the description; a second load gives the same sequence.
C21_SortedCatalog ==
    /\ \A i, j \in DOMAIN catalog :
          i < j => \/ StrLess(catalog[i].Path, catalog[j].Path)
                   \/ /\ catalog[i].Path = catalog[j].Path
                      /\ MethodRank(catalog[i].Method) < MethodRank(catalog[j].Method)
    /\ loads >= 2 => catalog = previous

\* The path item of a catalog entry.
PathItemFor(o) == doc[CHOOSE k \in DOMAIN doc : doc[k].path = o.Path]

\* The four lists of an operation with the location each is for.
ListsOf(o) ==
    { [list |-> o.Parameters.Header, in |-> <<"h","e","a","d","e","r">>],
      [list |-> o.Parameters.Path,   in |-> <<"p","a","t","h">>],
      [list |-> o.Parameters.Query,  in |-> <<"q","u","e","r","y">>],
      [list |-> o.Parameters.Body,   in |-> <<"b","o","d","y">>] }

\* C22: each of the four parameter lists of an operation holds only
\* parameters of its location, and no name twice, also when a path item and
\* its operation declare the same name in the same location.
C22_UniqueNames ==
    \A i \in DOMAIN catalog : \A l \in ListsOf(catalog[i]) :
        /\ \A k \in DOMAIN l.list : l.list[k].In = l.in
        /\ \A k, m \in DOMAIN l.list : k # m => l.list[k].Name # l.list[m].Name

\* The declared parameters of one location, in the order they are declared.
RECURSIVE DeclaredIn(_, _)
DeclaredIn(specParams, in) ==
    IF Len(specParams) = 0 THEN <<>>
    ELSE (IF specParams[1].In = in THEN <<specParams[1]>> ELSE <<>>)
         \o DeclaredIn(Tail(specParams), in)

\* What identifies a parameter of a list as a declared one.
SameDeclaration(p, specParam) ==
    /\ p.In = specParam.In
    /\ p.Name = specParam.Name
    /\ p.Type = getSchemaType(specParam.Schema)
    /\ p.Required = specParam.Required

\* C23: each of the header, path and query lists of an operation is the
\* parameters of that location declared on the path item, in the order
\* declared, followed by those declared on the operation, in the order
\* declared.
C23_DeclarationOrder ==
    \A i \in DOMAIN catalog : \A in \in {<<"h","e","a","d","e","r">>, <<"p","a","t","h">>, <<"q","u","e","r","y">>} :
        LET o        == catalog[i]
            list     == IF in = <<"h","e","a","d","e","r">> THEN o.Parameters.Header
                        ELSE IF in = <<"p","a","t","h">> THEN o.Parameters.Path
                        ELSE o.Parameters.Query
            expected == DeclaredIn(PathItemFor(o).parameters, in)
                        \o DeclaredIn(DeclaredFor(o).Parameters, in)
        IN  /\ Len(list) = Len(expected)
            /\ \A k \in DOMAIN list : SameDeclaration(list[k], expected[k])

\* Two path parameters of the path item and one of the operation.
C23_Witness ==
    /\ loads > 0
    /\ Len(catalog) = 1
    /\ PathItemFor(catalog[1]).parameters =
          << SpecParameter(<<"p","a","t","h">>, <<"o","r","d","e","r","I","d">>, Scalar(<<"s","t","r","i","n","g">>), TRUE),
             SpecParameter(<<"p","a","t","h">>, <<"u","s","e","r","I","d">>, Scalar(<<"s","t","r","i","n","g">>), TRUE) >>
    /\ DeclaredFor(catalog[1]).Parameters =
          << SpecParameter(<<"p","a","t","h">>, <<"i","t","e","m","I","d">>, Scalar(<<"i","n","t","e","g","e","r">>), TRUE),
             SpecParameter(<<"q","u","e","r","y">>, <<"s","o","r","t">>, ArrayOf(Scalar(<<"s","t","r","i","n","g">>)), FALSE) >>
    /\ [k \in DOMAIN catalog[1].Parameters.Path |-> catalog[1].Parameters.Path[k].Name]
          = <<<<"o","r","d","e","r","I","d">>, <<"u","s","e","r","I","d">>, <<"i","t","e","m","I","d">>>>

\* The body schema of a catalog entry.
HasBodySchema(o) == DeclaredFor(o).RequestBody # NoRequestBody
BodySchemaOf(o) == DeclaredFor(o).RequestBody.schema

IsObject(schema) == schema.Type[1] = <<"o","b","j","e","c","t">>

\* A property of a schema is addressed by the positions, level after level,
\* of the properties that lead to it.
Positions == SeqsUpTo(1..(MaxProperties + 2), MaxNesting) \ {<<>>}

\* The property at a position, and the schema that has it as a property.
RECURSIVE ParentAt(_, _)
ParentAt(schema, pos) ==
    IF Len(pos) = 1 THEN schema ELSE ParentAt(schema.Properties[pos[1]].schema, Tail(pos))
PropertyAt(schema, pos) == ParentAt(schema, pos).Properties[pos[Len(pos)]]

\* The position leads through objects to a property.
RECURSIVE IsPosition(_, _)
IsPosition(schema, pos) ==
    /\ pos[1] \in DOMAIN schema.Properties
    /\ Len(pos) > 1 =>
          /\ IsObject(schema.Properties[pos[1]].schema)
          /\ IsPosition(schema.Properties[pos[1]].schema, Tail(pos))

\* The positions of the properties that are not objects.
LeafPositions(schema) ==
    {pos \in Positions : IsPosition(schema, pos) /\ ~IsObject(PropertyAt(schema, pos).schema)}

\* Document order, depth first: the order of the first position that differs.
Before(p, q) ==
    \E k \in 1..Len(p) :
        /\ k <= Len(q)
        /\ p[k] < q[k]
        /\ \A m \in 1..(k - 1) : p[m] = q[m]

\* The names of the properties from the root to the position, joined by ".".
RECURSIVE ChainName(_, _)
ChainName(schema, pos) ==
    IF Len(pos) = 1 THEN schema.Properties[pos[1]].name
    ELSE schema.Properties[pos[1]].name \o <<".">>
         \o ChainName(schema.Properties[pos[1]].schema, Tail(pos))

\* C24: the body parameters of an operation are one per property, at any
\* depth, that is not an object, in document order depth first; each is named
\* by the names from the root to its property joined by "." and is required
\* exactly when the name of its property is in the required list of the
\* schema that has the property.
C24_Flattening ==
    \A i \in DOMAIN catalog :
        LET o      == catalog[i]
            leaves == IF HasBodySchema(o) THEN LeafPositions(BodySchemaOf(o)) ELSE {}
            rank(pos) == 1 + Cardinality({q \in leaves : Before(q, pos)})
        IN  /\ Len(o.Parameters.Body) = Cardinality(leaves)
            /\ \A pos \in leaves :
                  LET p == o.Parameters.Body[rank(pos)]
                  IN  /\ p.In = <<"b","o","d","y">>
                      /\ p.Name = ChainName(BodySchemaOf(o), pos)
                      /\ p.Required <=>
                            \E k \in DOMAIN ParentAt(BodySchemaOf(o), pos).Required :
                                ParentAt(BodySchemaOf(o), pos).Required[k]
                                   = PropertyAt(BodySchemaOf(o), pos).name

\* A body with an object two levels deep that the root does not require.
C24_Witness ==
    /\ loads > 0
    /\ Len(catalog) = 1
    /\ HasBodySchema(catalog[1])
    /\ BodySchemaOf(catalog[1]).Required = <<<<"b">>>>
    /\ [k \in DOMAIN catalog[1].Parameters.Body |->
           <<catalog[1].Parameters.Body[k].Name, catalog[1].Parameters.Body[k].Required>>]
          = << <<<<"a",".","a",".","q">>, TRUE>>, <<<<"a",".","x">>, FALSE>>, <<<<"b">>, TRUE>> >>

ScalarTypes == {<<"s","t","r","i","n","g">>, <<"i","n","t","e","g","e","r">>, <<"n","u","m","b","e","r">>, <<"b","o","o","l","e","a","n">>}

\* C25: the type of every body parameter of every operation is string,
\* integer, number or boolean, or "[]" followed by one of these; none is
\* object, an array of objects or an array of arrays.
C25_ScalarBodyTypes ==
    \A i \in DOMAIN catalog : \A k \in DOMAIN catalog[i].Parameters.Body :
        catalog[i].Parameters.Body[k].Type
            \in ScalarTypes \cup {<<"[","]">> \o t : t \in ScalarTypes}

(***************************************************************************)
(* C26 - C30: outcomes of a build, empty values, the order of validation,  *)
(* the precedence of headers and the frame of Authenticate.                *)
(***************************************************************************)
\* A request with its method, URL, body and headers set.
CompleteRequest ==
    /\ req # NoRequest
    /\ ~req.nil
    /\ req.Method = op.Method
    /\ HasPrefix(req.URL, serverURL)
    /\ Len(req.URL) > Len(serverURL)
    /\ HasBody(op) => <<"C","o","n","t","e","n","t","-","T","y","p","e">> \in DOMAIN req.Header
    /\ IsJSON(op.BodyFormat) => (req.Body[1] = "{" /\ req.Body[Len(req.Body)] = "}")
    /\ <<"U","s","e","r","-","A","g","e","n","t">> \in DOMAIN req.Header

\* C26: Operation.Request returns either a complete request and no error, or
\* an error and no request; too few path values, an invalid value, a value
\* that cannot be cast and an unsupported body format each give an error
\* and no request.
C26_AllOrNothing ==
    Returned =>
        /\ \/ (pc = "built" /\ ~err.isErr /\ CompleteRequest)
           \/ (pc = "request_error" /\ err.isErr /\ Len(err.msg) > 0 /\ req = NoRequest)
        /\ (~ArityHolds \/ SomeInvalid \/ SomeUncastable
              \/ (PassesValidation /\ UnsupportedFormat)) => pc = "request_error"

\* A body value that cannot be cast: an error and no request.
C26_Witness ==
    /\ pc = "request_error"
    /\ req = NoRequest
    /\ PassesValidation
    /\ SomeUncastable
    /\ HasPrefix(err.msg, <<"c","o","u","l","d"," ","n","o","t"," ","p","r","o","c","e","s","s"," ">>)

\* The key of a parameter is supplied with the empty string as its value.
SuppliedEmpty(p) ==
    LET supplied == IF p.In = <<"q","u","e","r","y">> THEN values.Query ELSE values.Body
    IN  p.Name \in DOMAIN supplied /\ supplied[p.Name] = << <<>> >>

\* The error of casting the empty string to the type of a parameter.
EmptyCastMessage(p) ==
    <<"c","o","u","l","d"," ","n","o","t"," ","p","r","o","c","e","s","s"," ">> \o p.Name \o <<":"," ","\"","\""," ","i","s"," ","n","o","t"," ","a"," ","v","a","l","i","d"," ">>
    \o (IF HasPrefix(p.Type, <<"[","]">>) THEN SliceFrom(p.Type, 2) ELSE p.Type)

\* The key is in the request with the empty string as its value.
PassedThroughEmpty(p) ==
    IF p.In = <<"q","u","e","r","y">>
    THEN LET q == ParseQuery(URLQuery).values
         IN  p.Name \in DOMAIN q /\ q[p.Name] = << <<>> >>
    ELSE IF IsJSON(op.BodyFormat)
    THEN Contains(req.Body, <<"\"">> \o p.Name \o <<"\"",":","\"","\"">>)
    ELSE LET b == ParseQuery(req.Body).values
         IN  p.Name \in DOMAIN b /\ b[p.Name] = << <<>> >>

\* C27: a key of a parameter that is not required, supplied with the empty
\* string, does not make the build fail, and is in the query or the body of
\* the built request with the value "" (a body parameter: of an operation
\* that has a body).
C27_EmptyPassedThrough ==
    Returned =>
        \A i \in DOMAIN CheckedParameters :
            LET p == CheckedParameters[i]
            IN  (~p.Required /\ SuppliedEmpty(p) /\ (p.In = <<"b","o","d","y">> => HasBody(op))) =>
                    /\ err # Error(EmptyCastMessage(p))
                    /\ pc = "built" => PassedThroughEmpty(p)

\* The message validation has for an invalid parameter.
InvalidMessage(p) == IF IsMissing(p) THEN MissingMessage(p) ELSE EnumMessage(p)

\* The first invalid parameter of a list, in declaration order.
FirstInvalidOf(list) ==
    list[CHOOSE i \in DOMAIN list :
            /\ IsInvalid(list[i])
            /\ \A j \in 1..(i - 1) : ~IsInvalid(list[j])]
SomeInvalidIn(list) == \E i \in DOMAIN list : IsInvalid(list[i])

\* The error is about a declared header parameter.
IsHeaderError ==
    \E i \in DOMAIN op.Parameters.Header :
        Contains(err.msg, <<"h","e","a","d","e","r"," ","p","a","r","a","m","e","t","e","r"," ","\"">> \o op.Parameters.Header[i].Name \o <<"\"">>)

\* C28: validation reports the first failure of: too few path values, then
\* the query parameters in declaration order, then the body parameters in
\* declaration order, whatever else is invalid; declared header parameters
\* are not checked, so a required header that is missing is no error.
C28_ValidationOrder ==
    Returned =>
        /\ ~ArityHolds => err = Error(TooFewMessage)
        /\ (ArityHolds /\ SomeInvalidIn(op.Parameters.Query)) =>
              err = Error(InvalidMessage(FirstInvalidOf(op.Parameters.Query)))
        /\ (ArityHolds /\ ~SomeInvalidIn(op.Parameters.Query)
              /\ SomeInvalidIn(op.Parameters.Body)) =>
              err = Error(InvalidMessage(FirstInvalidOf(op.Parameters.Body)))
        /\ ~IsHeaderError
        /\ PassesValidation => ~HasPrefix(err.msg, <<"m","i","s","s","i","n","g"," ","r","e","q","u","i","r","e","d"," ">>)

\* Both query parameters and a body parameter are invalid and the required
\* header is missing: the error is that of the first query parameter.
C28_Witness ==
    /\ pc = "request_error"
    /\ op \in OrderOps
    /\ args = Args(<<>>, <<<<"x">>>>, <<"r","=","z","z">>, <<"k","i","n","d","=","z","z">>)
    /\ err = Error(<<"m","i","s","s","i","n","g"," ","r","e","q","u","i","r","e","d"," ","q","u","e","r","y"," ","p","a","r","a","m","e","t","e","r"," ","\"","q","\"">>)

\* The required header parameter is missing and the request is built.
C28_HeaderUnchecked ==
    /\ pc = "built"
    /\ \E i \in DOMAIN op.Parameters.Header :
          /\ op.Parameters.Header[i].Required
          /\ op.Parameters.Header[i].Name \notin DOMAIN values.Header

(***************************************************************************)
(* C29 - C30: the headers of the request that is sent.                     *)
(***************************************************************************)
\* The headers of the user, as ParseRequestValues returned them.
UserHeaders == values.Header

\* Whether the profile has a credential source, and the credentials the last
\* successful call of Authenticate worked with.
AuthConfigured == auth.Credentials # <<>> \/ auth.Command # <<>>
LastCredentials ==
    IF auth.Command # <<>> THEN Trimmed(ran[Len(ran)]) ELSE auth.Credentials
SentAuthName == CanonicalMIMEHeaderKey(AuthHeaderName)

\* The names of the headers the engine writes.
EngineNames ==
    {<<"U","s","e","r","-","A","g","e","n","t">>}
    \cup (IF HasBody(op) THEN {<<"C","o","n","t","e","n","t","-","T","y","p","e">>} ELSE {})
    \cup (IF AuthConfigured THEN {SentAuthName} ELSE {})

\* C29: in the request that is sent, Content-Type (when the operation has a
\* body), User-Agent and the header auth sets carry the value of the engine
\* whatever the user supplied under that name, and every other header of the
\* user is there with its value; there are no further headers.
C29_EngineHeadersWin ==
    pc = "authenticated" =>
        /\ HasBody(op) => req.Header[<<"C","o","n","t","e","n","t","-","T","y","p","e">>] = <<op.BodyFormat>>
        /\ req.Header[<<"U","s","e","r","-","A","g","e","n","t">>] = <<UserAgent>>
        /\ AuthConfigured => req.Header[SentAuthName] = <<HeaderValueFor(LastCredentials)>>
        /\ \A k \in DOMAIN UserHeaders \ EngineNames :
              k \in DOMAIN req.Header /\ req.Header[k] = UserHeaders[k]
        /\ DOMAIN req.Header = DOMAIN UserHeaders \cup EngineNames

\* The user supplied a Content-Type for an operation with a JSON body, and
\* another header: the first is replaced, the second kept.
C29_Witness ==
    /\ pc = "authenticated"
    /\ HasBody(op)
    /\ <<"C","o","n","t","e","n","t","-","T","y","p","e">> \in DOMAIN UserHeaders
    /\ UserHeaders[<<"C","o","n","t","e","n","t","-","T","y","p","e">>] = <<<<"t","e","x","t","/","p","l","a","i","n">>>>
    /\ <<"X","-","A">> \in DOMAIN UserHeaders
    /\ req.Header[<<"C","o","n","t","e","n","t","-","T","y","p","e">>] = <<<<"a","p","p","l","i","c","a","t","i","o","n","/","j","s","o","n">>>>
    /\ req.Header[<<"X","-","A">>] = UserHeaders[<<"X","-","A">>]

\* A user-supplied User-Agent and Authorization were both replaced.
C29_AuthReplaced ==
    /\ pc = "authenticated"
    /\ AuthConfigured
    /\ <<"A","u","t","h","o","r","i","z","a","t","i","o","n">> \in DOMAIN UserHeaders
    /\ req.Header[<<"A","u","t","h","o","r","i","z","a","t","i","o","n">>] # UserHeaders[<<"A","u","t","h","o","r","i","z","a","t","i","o","n">>]

\* C30: a call of Authenticate that returns an error (the command failed or
\* printed nothing, or the type is missing or not recognised) leaves the
\* headers of the request exactly as they were before the call.
C30_ErrorKeepsHeaders ==
    [][(IsAuthenticateCall /\ err'.isErr) => req'.Header = req.Header]_vars

\* A call with credentials and a type that is not recognised, on a request
\* that carries an Authorization header of the user: the header is unchanged.
C30_Witness ==
    /\ pc = "auth_error"
    /\ auth.Credentials = <<"M","Y","K","E","Y">>
    /\ auth.Command = <<>>
    /\ auth.Type = <<"a","p","i","k","e","y">>
    /\ err = Error(<<"u","n","r","e","c","o","g","n","i","z","e","d"," ","a","u","t","h"," ","t","y","p","e"," ","\"","a","p","i","k","e","y","\"">>)
    /\ args.headers = <<<<"A","u","t","h","o","r","i","z","a","t","i","o","n",":"," ","o","l","d">>>>
    /\ req.Header = [k \in {<<"A","u","t","h","o","r","i","z","a","t","i","o","n">>, <<"U","s","e","r","-","A","g","e","n","t">>} |->
                        IF k = <<"U","s","e","r","-","A","g","e","n","t">> THEN <<UserAgent>> ELSE <<<<"o","l","d">>>>]

=============================================================================
